---- MODULE Spec2Model ----
(***************************************************************************)
(* Model of c-serialise: the macro-generated codecs (include/serialise.h), *)
(* the indexed record layer (include/kvstore.h), the vtable dispatch       *)
(* (src/kvstore.c) and the in-memory backend (src/kvstore_mem.c).          *)
(*                                                                         *)
(* The indexed layer is instantiated for a message_record in the shape of  *)
(* examples/kvstore_complex_test.c: a compound primary key                 *)
(* (mailbox_id, uid), a charptr index by_sender and a u64 index by_thread. *)
(* Byte strings are sequences over 0..255; C indices are kept 0-based and  *)
(* shifted by one where a TLA+ sequence is subscripted.                    *)
(***************************************************************************)
EXTENDS Integers, Sequences, FiniteSets, TLC

(* ---------------- bounds of the model ---------------- *)

\* longest charptr value (strings are NULL or 'a'^n, n <= MaxStrLen)
MaxStrLen == 1
\* most entries a raw table is filled with
MaxEntries == 2
\* longest string the codecs are compared on
MaxKeyStrLen == 2

(* ---------------- return codes, kvstore.h:44-48 ---------------- *)

KVSTORE_OK == 0
KVSTORE_NOTFOUND == 1
KVSTORE_ERROR == -1

(* ---------------- primitive codecs, serialise.h ---------------- *)

RECURSIVE BE(_, _)
\* n-byte big-endian image of v (SER_BE16/32/64 then memcpy)
BE(v, n) == IF n = 0 THEN <<>> ELSE Append(BE(v \div 256, n - 1), v % 256)

RECURSIVE UnBE(_)
\* value of a big-endian byte string
UnBE(b) == IF b = <<>> THEN 0 ELSE UnBE(SubSeq(b, 1, Len(b) - 1)) * 256 + b[Len(b)]

RECURSIVE LE(_, _)
\* n-byte host-endian (little-endian) image of v: memcpy(p, &len, 4)
LE(v, n) == IF n = 0 THEN <<>> ELSE <<v % 256>> \o LE(v \div 256, n - 1)

RECURSIVE UnLE(_)
UnLE(b) == IF b = <<>> THEN 0 ELSE b[1] + 256 * UnLE(Tail(b))

(* ---------------- integers at their full width, serialise.h:88-109 ---------------- *)

\* An integer of 8 to 64 bits is held as the number
\*     top * 65536^Len(low) + low[1] * 65536^(Len(low)-1) + ... + low[Len(low)]
\* with every low[i] in 0..65535 and top the leading 8 or 16 bits, negative for
\* the negative values of a signed type.
Word(top, low) == [top |-> top, low |-> low]

IntTags == {"u8", "u16", "u32", "u64", "i8", "i16", "i32", "i64"}
Signed(tag) == tag \in {"i8", "i16", "i32", "i64"}

IntBytes(tag) == CASE tag \in {"u8", "i8"} -> 1 [] tag \in {"u16", "i16"} -> 2
                   [] tag \in {"u32", "i32"} -> 4 [] tag \in {"u64", "i64"} -> 8

\* bytes held in top, and 16-bit limbs held in low
TopBytes(tag) == IF IntBytes(tag) = 1 THEN 1 ELSE 2
LowLimbs(tag) == (IntBytes(tag) - TopBytes(tag)) \div 2

RECURSIVE Pow2(_)
Pow2(n) == IF n = 0 THEN 1 ELSE 2 * Pow2(n - 1)

\* (uintN_t)(v): the conversion to unsigned acts on the leading bits only
CastUnsigned(x, tag) == [x EXCEPT !.top = x.top % Pow2(8 * TopBytes(tag))]

\* fault: the sign bit is left as it is
KeepSignBit(u, tag) == u

\* u ^ 0x80, 0x8000, 0x80000000u, 0x8000000000000000ull: the leading bit flipped
FlipSignBit(u, tag) ==
    LET sign == Pow2(8 * TopBytes(tag) - 1)
    IN  [u EXCEPT !.top = IF u.top >= sign THEN u.top - sign ELSE u.top + sign]

RECURSIVE LimbBytes(_)
LimbBytes(low) == IF low = <<>> THEN <<>> ELSE BE(Head(low), 2) \o LimbBytes(Tail(low))

\* SER_WRITE_U8/U16/U32/U64: the unsigned conversion, then the big-endian image
SER_WRITE_U(tag, x) ==
    BE(CastUnsigned(x, tag).top, TopBytes(tag)) \o LimbBytes(x.low)

\* SER_WRITE_I8/I16/I32/I64
SER_WRITE_I(tag, x) == SER_WRITE_U(tag, FlipSignBit(CastUnsigned(x, tag), tag))

\* TYPE_ENC_<tag> for the eight integer tags
TYPE_ENC_int(tag, x) == IF Signed(tag) THEN SER_WRITE_I(tag, x) ELSE SER_WRITE_U(tag, x)

\* SER_READ_U8/U16/U32/U64: the unsigned number the leading bytes of buf hold
SER_READ_U(tag, buf) ==
    Word(UnBE(SubSeq(buf, 1, TopBytes(tag))),
         [i \in 1..LowLimbs(tag) |->
             UnBE(SubSeq(buf, TopBytes(tag) + 2 * i - 1, TopBytes(tag) + 2 * i))])

\* (int8_t)(u) .. (int64_t)(u): the two's complement value of the same bits
CastSigned(u, tag) ==
    LET sign == Pow2(8 * TopBytes(tag) - 1)
    IN  [u EXCEPT !.top = IF u.top >= sign THEN u.top - 2 * sign ELSE u.top]

\* SER_READ_I8/I16/I32/I64
SER_READ_I(tag, buf) == CastSigned(FlipSignBit(SER_READ_U(tag, buf), tag), tag)

\* TYPE_DEC_<tag> for the eight integer tags: the value and the bytes consumed
TYPE_DEC_int(tag, buf) ==
    [val |-> IF Signed(tag) THEN SER_READ_I(tag, buf) ELSE SER_READ_U(tag, buf),
     used |-> IntBytes(tag)]

(* ---------------- timespec, serialise.h:203-230 ---------------- *)

\* A struct timespec whose tv_sec is the number sec_hi * 2^18 + sec_lo, with
\* sec_lo in 0 .. 2^18 - 1, and whose tv_nsec is nsec.
Timespec(sec_hi, sec_lo, nsec) == [sec_hi |-> sec_hi, sec_lo |-> sec_lo, nsec |-> nsec]

\* fault: the nanoseconds packed above the seconds
TYPE_ENC_timespec_nsec_first(v) ==
    LET nsec == v.nsec % Pow2(30)
        packed == Word(nsec \div Pow2(14),
                       << (nsec % Pow2(14)) * 4 + (v.sec_hi % Pow2(16)) \div Pow2(14),
                          ((v.sec_hi % Pow2(16)) % Pow2(14)) * 4 + v.sec_lo \div Pow2(16),
                          v.sec_lo % Pow2(16) >>)
    IN  SER_WRITE_U("u64", FlipSignBit(packed, "u64"))

\* TYPE_ENC_timespec: the low 34 bits of tv_sec above the low 30 bits of
\* tv_nsec, the top bit of the 64 flipped, written as a u64. Of the packed
\* value, bits 63..48 are the top 16 bits of the 34, bits 47..30 are sec_lo.
TYPE_ENC_timespec(v) ==
    LET nsec == v.nsec % Pow2(30)
        packed == Word(v.sec_hi % Pow2(16),
                       << v.sec_lo \div 4,
                          (v.sec_lo % 4) * Pow2(14) + nsec \div Pow2(16),
                          nsec % Pow2(16) >>)
    IN  SER_WRITE_U("u64", FlipSignBit(packed, "u64"))

\* fault: the 34 bits of the seconds read back without sign extension
TYPE_DEC_timespec_unsigned(buf) ==
    LET packed == FlipSignBit(SER_READ_U("u64", buf), "u64")
        nsec == (packed.low[2] % Pow2(14)) * Pow2(16) + packed.low[3]
        sec_lo == packed.low[1] * 4 + packed.low[2] \div Pow2(14)
    IN  [val |-> Timespec(packed.top, sec_lo, nsec), used |-> 8]

\* TYPE_DEC_timespec: the u64 read back and its top bit flipped, the low 30 bits
\* to tv_nsec, the next 34 bits sign-extended to tv_sec
TYPE_DEC_timespec(buf) ==
    LET packed == FlipSignBit(SER_READ_U("u64", buf), "u64")
        nsec == (packed.low[2] % Pow2(14)) * Pow2(16) + packed.low[3]
        sec_lo == packed.low[1] * 4 + packed.low[2] \div Pow2(14)
        sec_hi == IF packed.top >= Pow2(15) THEN packed.top - Pow2(16) ELSE packed.top
    IN  [val |-> Timespec(sec_hi, sec_lo, nsec), used |-> 8]

(* ---------------- the codecs by tag, serialise.h:140-235 ---------------- *)

\* a charptr value: NULL, or a NUL-terminated string given by its characters
NullStr == [null |-> TRUE, chars |-> <<>>]
Str(cs) == [null |-> FALSE, chars |-> cs]

\* strlen-guarded length: (v) ? strlen(v) : 0u
StrLenOrZero(v) == IF v.null THEN 0 ELSE Len(v.chars)

TagWidth(tag) == CASE tag = "u8" -> 1 [] tag = "u16" -> 2 [] tag = "u32" -> 4
                   [] tag = "u64" -> 8 [] tag = "size" -> 8
                   [] tag = "i8" -> 1 [] tag = "i16" -> 2 [] tag = "i32" -> 4
                   [] tag = "i64" -> 8

\* fault: the terminating NUL counted into the size of a charptr
TYPE_SIZEOF_with_nul(tag, v) == IF tag = "charptr" THEN 4 + StrLenOrZero(v) + 1
                                ELSE IF tag = "timespec" THEN 8
                                ELSE TagWidth(tag)

\* TYPE_SIZEOF(tag, v)
TYPE_SIZEOF(tag, v) == IF tag = "charptr" THEN 4 + StrLenOrZero(v)
                       ELSE IF tag = "timespec" THEN 8
                       ELSE TagWidth(tag)

\* fault: a charptr written as its bytes alone, without the length
TYPE_ENC_no_length(tag, v) ==
    IF tag = "charptr"
    THEN (IF StrLenOrZero(v) # 0 THEN v.chars ELSE <<>>)
    ELSE IF tag = "timespec" THEN TYPE_ENC_timespec(v)
    ELSE BE(v, TagWidth(tag))

\* TYPE_ENC(tag, buf, v): the bytes appended to buf
TYPE_ENC(tag, v) ==
    IF tag = "charptr"
    THEN BE(StrLenOrZero(v), 4) \o (IF StrLenOrZero(v) # 0 THEN v.chars ELSE <<>>)
    ELSE IF tag = "timespec" THEN TYPE_ENC_timespec(v)
    ELSE BE(v, TagWidth(tag))

\* TYPE_DEC(tag, buf, l): the decoded value and the number of bytes consumed.
\* The charptr decoder always allocates len+1 bytes and stores that pointer.
TYPE_DEC(tag, buf) ==
    IF tag = "charptr"
    THEN LET len == UnBE(SubSeq(buf, 1, 4))
         IN  [val |-> Str(SubSeq(buf, 5, 4 + len)), used |-> 4 + len]
    ELSE [val |-> UnBE(SubSeq(buf, 1, TagWidth(tag))), used |-> TagWidth(tag)]

(* ---------------- schema composer, serialise.h:303-358 ---------------- *)

Field(n, t) == [name |-> n, tag |-> t]

RECURSIVE SerialiseSize(_, _)
\* serialise_<S>_size: sum of the field sizes in schema order
SerialiseSize(schema, r) ==
    IF schema = <<>> THEN 0
    ELSE TYPE_SIZEOF(Head(schema).tag, r[Head(schema).name]) + SerialiseSize(Tail(schema), r)

RECURSIVE SerialiseReversed(_, _)
\* fault: the fields written last to first
SerialiseReversed(schema, r) ==
    IF schema = <<>> THEN <<>>
    ELSE SerialiseReversed(Tail(schema), r) \o TYPE_ENC(Head(schema).tag, r[Head(schema).name])

RECURSIVE Serialise(_, _)
\* serialise_<S>: concatenation of the field encodings in schema order
Serialise(schema, r) ==
    IF schema = <<>> THEN <<>>
    ELSE TYPE_ENC(Head(schema).tag, r[Head(schema).name]) \o Serialise(Tail(schema), r)

RECURSIVE Deserialise(_, _, _)
\* deserialise_<S>: decodes the listed fields into r, leaving the others
Deserialise(schema, buf, r) ==
    IF schema = <<>> THEN r
    ELSE LET d == TYPE_DEC(Head(schema).tag, buf)
         IN  Deserialise(Tail(schema), SubSeq(buf, d.used + 1, Len(buf)),
                         [r EXCEPT ![Head(schema).name] = d.val])

(* ---------------- the record and its keys ---------------- *)

\* SERIALISE(message_record, ...): the full record schema
RecSchema == << Field("mailbox_id", "u32"), Field("uid", "u32"), Field("sender", "charptr"),
                Field("thread_id", "u64"), Field("flags", "u32") >>

\* SERIALISE_PRIMARY_KEY(message_record, pk, mailbox_id, uid)
PkSchema == << Field("mailbox_id", "u32"), Field("uid", "u32") >>

\* SERIALISE_FINALIZE_INDICES(message_record, by_sender, by_thread)
Indices == << "by_sender", "by_thread" >>

\* SERIALISE_SECONDARY_KEY(message_record, <index>, ...)
SkSchema(idx) == IF idx = "by_sender" THEN << Field("sender", "charptr") >>
                 ELSE << Field("thread_id", "u64") >>

\* #rec_type "_pk" and #rec_type "_" #index_name
PkTable == "message_record_pk"
SkTable(idx) == IF idx = "by_sender" THEN "message_record_by_sender"
                ELSE "message_record_by_thread"

SchemaNames(schema) == { schema[i].name : i \in 1..Len(schema) }

\* KV_GENERATE_EXTRACTOR: key->name = rec->name for every key field
Extract(schema, rec) == [n \in SchemaNames(schema) |-> rec[n]]
extract_pk(rec) == Extract(PkSchema, rec)
extract_sk(idx, rec) == Extract(SkSchema(idx), rec)

\* struct message_record r = {0}
ZeroRec == [mailbox_id |-> 0, uid |-> 0, sender |-> NullStr, thread_id |-> 0, flags |-> 0]
ZeroPk == [mailbox_id |-> 0, uid |-> 0]

(* ---------------- in-memory backend, kvstore_mem.c ---------------- *)

RECURSIVE memcmp(_, _, _)
\* sign of memcmp over the first n bytes
memcmp(a, b, n) ==
    IF n = 0 THEN 0
    ELSE IF a[1] < b[1] THEN -1
    ELSE IF a[1] > b[1] THEN 1
    ELSE memcmp(Tail(a), Tail(b), n - 1)

\* fault: compare_keys with the length tie-break the wrong way round
compare_keys_longer_first(k1, k2) ==
    LET min_size == IF Len(k1) < Len(k2) THEN Len(k1) ELSE Len(k2)
        cmp == memcmp(k1, k2, min_size)
    IN  IF cmp # 0 THEN cmp
        ELSE IF Len(k1) < Len(k2) THEN 1
        ELSE IF Len(k1) > Len(k2) THEN -1
        ELSE 0

\* compare_keys: the sign of memcmp over the common length, then the shorter first
compare_keys(k1, k2) ==
    LET min_size == IF Len(k1) < Len(k2) THEN Len(k1) ELSE Len(k2)
        cmp == memcmp(k1, k2, min_size)
    IN  IF cmp # 0 THEN cmp
        ELSE IF Len(k1) < Len(k2) THEN -1
        ELSE IF Len(k1) > Len(k2) THEN 1
        ELSE 0

RECURSIVE find_table_from(_, _, _)
find_table_from(db, name, i) ==
    IF i >= Len(db) THEN -1
    ELSE IF db[i + 1].name = name THEN i
    ELSE find_table_from(db, name, i + 1)

\* fault: the first table of the list, whatever its name
find_table_any_name(db, name) == IF Len(db) = 0 THEN -1 ELSE 0

\* index of the first table called name, -1 for NULL
find_table(db, name) == find_table_from(db, name, 0)

\* the table list after get_or_create_table, and the index of the table
get_or_create_table(db, name) ==
    IF find_table(db, name) >= 0
    THEN [db |-> db, idx |-> find_table(db, name)]
    ELSE [db |-> Append(db, [name |-> name, pairs |-> <<>>]), idx |-> Len(db)]

RECURSIVE find_key_index_loop(_, _, _, _)
find_key_index_loop(pairs, key, left, right) ==
    IF left > right THEN -1
    ELSE LET mid == left + (right - left) \div 2
             cmp == compare_keys(key, pairs[mid + 1].key)
         IN  IF cmp = 0 THEN mid
             ELSE IF cmp < 0 THEN find_key_index_loop(pairs, key, left, mid - 1)
             ELSE find_key_index_loop(pairs, key, mid + 1, right)

\* fault: the binary search starts with right = count - 2 and never looks at
\* the last pair
find_key_index_short(pairs, key) == find_key_index_loop(pairs, key, 0, Len(pairs) - 2)

find_key_index(pairs, key) == find_key_index_loop(pairs, key, 0, Len(pairs) - 1)

RECURSIVE find_insert_pos_loop(_, _, _, _)
find_insert_pos_loop(pairs, key, left, right) ==
    IF left >= right THEN left
    ELSE LET mid == left + (right - left) \div 2
             cmp == compare_keys(key, pairs[mid + 1].key)
         IN  IF cmp < 0 THEN find_insert_pos_loop(pairs, key, left, mid)
             ELSE IF cmp > 0 THEN find_insert_pos_loop(pairs, key, mid + 1, right)
             ELSE mid

\* fault: no search for the position, a new pair always goes to the end
find_insert_pos_append(pairs, key) == Len(pairs)

find_insert_pos(pairs, key) == find_insert_pos_loop(pairs, key, 0, Len(pairs))

\* fault: mem_put without the test for an existing key, every put inserts
mem_put_insert_only(mtxn, db, table_name, key, val) ==
    IF ~mtxn THEN [rc |-> KVSTORE_ERROR, db |-> db]
    ELSE LET g == get_or_create_table(db, table_name)
             pairs == g.db[g.idx + 1].pairs
             idx == find_insert_pos(pairs, key)
         IN  [rc |-> KVSTORE_OK,
              db |-> [g.db EXCEPT ![g.idx + 1].pairs =
                         SubSeq(pairs, 1, idx) \o << [key |-> key, val |-> val] >>
                         \o SubSeq(pairs, idx + 1, Len(pairs))]]

\* fault: mem_put that leaves the value of an existing key as it is
mem_put_keep_value(mtxn, db, table_name, key, val) ==
    IF ~mtxn THEN [rc |-> KVSTORE_ERROR, db |-> db]
    ELSE LET g == get_or_create_table(db, table_name)
             pairs == g.db[g.idx + 1].pairs
             idx == find_insert_pos(pairs, key)
             exists == idx >= 0 /\ idx < Len(pairs)
                       /\ compare_keys(key, pairs[idx + 1].key) = 0
             newpairs == IF exists
                         THEN pairs
                         ELSE SubSeq(pairs, 1, idx) \o << [key |-> key, val |-> val] >>
                              \o SubSeq(pairs, idx + 1, Len(pairs))
         IN  [rc |-> KVSTORE_OK, db |-> [g.db EXCEPT ![g.idx + 1].pairs = newpairs]]

\* mtxn: whether txn->backend_txn is non-NULL
mem_put(mtxn, db, table_name, key, val) ==
    IF ~mtxn THEN [rc |-> KVSTORE_ERROR, db |-> db]
    ELSE LET g == get_or_create_table(db, table_name)
             pairs == g.db[g.idx + 1].pairs
             idx == find_insert_pos(pairs, key)
             exists == idx >= 0 /\ idx < Len(pairs)
                       /\ compare_keys(key, pairs[idx + 1].key) = 0
             newpairs == IF exists
                         THEN [pairs EXCEPT ![idx + 1].val = val]
                         ELSE SubSeq(pairs, 1, idx) \o << [key |-> key, val |-> val] >>
                              \o SubSeq(pairs, idx + 1, Len(pairs))
         IN  [rc |-> KVSTORE_OK, db |-> [g.db EXCEPT ![g.idx + 1].pairs = newpairs]]

\* fault: mem_get reports a table that does not exist as an error
mem_get_no_table_error(mtxn, db, table_name, key) ==
    IF ~mtxn THEN [rc |-> KVSTORE_ERROR, val |-> <<>>]
    ELSE IF find_table(db, table_name) < 0 THEN [rc |-> KVSTORE_ERROR, val |-> <<>>]
    ELSE LET pairs == db[find_table(db, table_name) + 1].pairs
             idx == find_key_index(pairs, key)
         IN  IF idx < 0 THEN [rc |-> KVSTORE_NOTFOUND, val |-> <<>>]
             ELSE [rc |-> KVSTORE_OK, val |-> pairs[idx + 1].val]

mem_get(mtxn, db, table_name, key) ==
    IF ~mtxn THEN [rc |-> KVSTORE_ERROR, val |-> <<>>]
    ELSE IF find_table(db, table_name) < 0 THEN [rc |-> KVSTORE_NOTFOUND, val |-> <<>>]
    ELSE LET pairs == db[find_table(db, table_name) + 1].pairs
             idx == find_key_index(pairs, key)
         IN  IF idx < 0 THEN [rc |-> KVSTORE_NOTFOUND, val |-> <<>>]
             ELSE [rc |-> KVSTORE_OK, val |-> pairs[idx + 1].val]

\* fault: mem_del without the shift loop, count-- drops the last pair
mem_del_no_shift(mtxn, db, table_name, key) ==
    IF ~mtxn THEN [rc |-> KVSTORE_ERROR, db |-> db]
    ELSE IF find_table(db, table_name) < 0 THEN [rc |-> KVSTORE_NOTFOUND, db |-> db]
    ELSE LET t == find_table(db, table_name)
             pairs == db[t + 1].pairs
             idx == find_key_index(pairs, key)
         IN  IF idx < 0 THEN [rc |-> KVSTORE_NOTFOUND, db |-> db]
             ELSE [rc |-> KVSTORE_OK,
                   db |-> [db EXCEPT ![t + 1].pairs = SubSeq(pairs, 1, Len(pairs) - 1)]]

mem_del(mtxn, db, table_name, key) ==
    IF ~mtxn THEN [rc |-> KVSTORE_ERROR, db |-> db]
    ELSE IF find_table(db, table_name) < 0 THEN [rc |-> KVSTORE_NOTFOUND, db |-> db]
    ELSE LET t == find_table(db, table_name)
             pairs == db[t + 1].pairs
             idx == find_key_index(pairs, key)
         IN  IF idx < 0 THEN [rc |-> KVSTORE_NOTFOUND, db |-> db]
             ELSE [rc |-> KVSTORE_OK,
                   db |-> [db EXCEPT ![t + 1].pairs =
                              SubSeq(pairs, 1, idx) \o SubSeq(pairs, idx + 2, Len(pairs))]]

\* the pairs of a named table, <<>> when the table does not exist
TablePairs(db, name) == IF find_table(db, name) < 0 THEN <<>>
                        ELSE db[find_table(db, name) + 1].pairs

\* an optional start key: NULL, or a pointer to key
NoStart == [null |-> TRUE, key |-> <<>>]
StartAt(key) == [null |-> FALSE, key |-> key]

\* fault: mem_cursor_open that ignores the start key
mem_cursor_open_no_start(mtxn, db, table_name, start_key) ==
    IF ~mtxn THEN [rc |-> KVSTORE_ERROR, table |-> -1, index |-> 0, valid |-> FALSE]
    ELSE IF find_table(db, table_name) < 0
    THEN [rc |-> KVSTORE_NOTFOUND, table |-> -1, index |-> 0, valid |-> FALSE]
    ELSE [rc |-> KVSTORE_OK, table |-> find_table(db, table_name), index |-> 0,
          valid |-> 0 < Len(db[find_table(db, table_name) + 1].pairs)]

\* mem_cursor_open: table is the index of the kv_table_t the cursor points to
mem_cursor_open(mtxn, db, table_name, start_key) ==
    IF ~mtxn THEN [rc |-> KVSTORE_ERROR, table |-> -1, index |-> 0, valid |-> FALSE]
    ELSE IF find_table(db, table_name) < 0
    THEN [rc |-> KVSTORE_NOTFOUND, table |-> -1, index |-> 0, valid |-> FALSE]
    ELSE LET t == find_table(db, table_name)
             pairs == db[t + 1].pairs
             index == IF start_key.null THEN 0 ELSE find_insert_pos(pairs, start_key.key)
         IN  [rc |-> KVSTORE_OK, table |-> t, index |-> index, valid |-> index < Len(pairs)]

\* mem_cursor_get on an open cursor c (backend_cursor is non-NULL)
mem_cursor_get(c, db) ==
    IF ~c.valid THEN [rc |-> KVSTORE_ERROR, key |-> <<>>, val |-> <<>>]
    ELSE IF c.index >= Len(db[c.table + 1].pairs)
    THEN [rc |-> KVSTORE_NOTFOUND, key |-> <<>>, val |-> <<>>]
    ELSE [rc |-> KVSTORE_OK,
          key |-> db[c.table + 1].pairs[c.index + 1].key,
          val |-> db[c.table + 1].pairs[c.index + 1].val]

\* fault: mem_cursor_next that moves two entries on
mem_cursor_next_skipping(c, db) ==
    LET index == c.index + 2
        valid == index < Len(db[c.table + 1].pairs)
    IN  [rc |-> IF valid THEN KVSTORE_OK ELSE KVSTORE_NOTFOUND,
         index |-> index, valid |-> valid]

\* mem_cursor_next on an open cursor c
mem_cursor_next(c, db) ==
    LET index == c.index + 1
        valid == index < Len(db[c.table + 1].pairs)
    IN  [rc |-> IF valid THEN KVSTORE_OK ELSE KVSTORE_NOTFOUND,
         index |-> index, valid |-> valid]

(* ---------------- vtable dispatch, kvstore.c:75-91 ---------------- *)

\* A transaction handle is "null" (no kvstore_txn_t), "none" (backend_txn is
\* NULL), or "rw" / "ro" (a live backend transaction).
TxnLive(t) == t \in {"rw", "ro"}

kvstore_txn_put(t, db, table, key, val) ==
    IF t = "null" THEN [rc |-> KVSTORE_ERROR, db |-> db]
    ELSE mem_put(TxnLive(t), db, table, key, val)

kvstore_txn_get(t, db, table, key) ==
    IF t = "null" THEN [rc |-> KVSTORE_ERROR, val |-> <<>>]
    ELSE mem_get(TxnLive(t), db, table, key)

kvstore_txn_del(t, db, table, key) ==
    IF t = "null" THEN [rc |-> KVSTORE_ERROR, db |-> db]
    ELSE mem_del(TxnLive(t), db, table, key)

(* ---------------- cursors, kvstore.c:97-133 ---------------- *)

\* The caller's cursor pointer: "closed" (NULL), "open", or "dangling" (its
\* transaction was freed by commit or abort while the cursor was open).
NoCursor == [state |-> "closed", table |-> -1, index |-> 0, valid |-> FALSE]

\* fault: no cursor either when the table has no entry to stand on
kvstore_cursor_open_null_if_empty(t, db, table, start_key) ==
    IF t = "null" THEN [rc |-> KVSTORE_ERROR, cur |-> NoCursor]
    ELSE LET r == mem_cursor_open(TxnLive(t), db, table, start_key)
         IN  IF r.rc # KVSTORE_OK THEN [rc |-> r.rc, cur |-> NoCursor]
             ELSE IF ~r.valid THEN [rc |-> KVSTORE_NOTFOUND, cur |-> NoCursor]
             ELSE [rc |-> KVSTORE_OK,
                   cur |-> [state |-> "open", table |-> r.table, index |-> r.index,
                            valid |-> r.valid]]

\* kvstore_cursor_open: a NULL cursor unless the backend returns OK
kvstore_cursor_open(t, db, table, start_key) ==
    IF t = "null" THEN [rc |-> KVSTORE_ERROR, cur |-> NoCursor]
    ELSE LET r == mem_cursor_open(TxnLive(t), db, table, start_key)
         IN  IF r.rc # KVSTORE_OK THEN [rc |-> r.rc, cur |-> NoCursor]
             ELSE [rc |-> KVSTORE_OK,
                   cur |-> [state |-> "open", table |-> r.table, index |-> r.index,
                            valid |-> r.valid]]

kvstore_cursor_get(c, db) ==
    IF c.state = "closed" THEN [rc |-> KVSTORE_ERROR, key |-> <<>>, val |-> <<>>]
    ELSE mem_cursor_get(c, db)

kvstore_cursor_next(c, db) ==
    IF c.state = "closed" THEN [rc |-> KVSTORE_ERROR, index |-> c.index, valid |-> c.valid]
    ELSE mem_cursor_next(c, db)

(* ---------------- snapshot key buffer, kvstore.h:35-57, 475-505 ---------------- *)

\* KVSTORE_KEY_BUF_INIT
KeyBufInit == [null |-> TRUE, bytes |-> <<>>, size |-> 0]

\* an optional kvstore_key_buf_t* argument: NULL, or a pointer to kb
NoKeys == [given |-> FALSE, kb |-> KeyBufInit]
Keys(kb) == [given |-> TRUE, kb |-> kb]

RECURSIVE SkBundle(_, _)
\* KV_POPULATE_SK_DATA for the indices from i on: <u32 len><key bytes> each
SkBundle(rec, i) ==
    IF i > Len(Indices) THEN <<>>
    ELSE LET sk == Serialise(SkSchema(Indices[i]), extract_sk(Indices[i], rec))
         IN  LE(SerialiseSize(SkSchema(Indices[i]), extract_sk(Indices[i], rec)), 4)
             \o sk \o SkBundle(rec, i + 1)

\* the bundle <len pk><pk><len sk_1><sk_1>... of a record
Bundle(rec) ==
    LE(SerialiseSize(PkSchema, extract_pk(rec)), 4) \o Serialise(PkSchema, extract_pk(rec))
    \o SkBundle(rec, 1)

RECURSIVE SkBundleReversed(_, _)
SkBundleReversed(rec, i) ==
    IF i < 1 THEN <<>>
    ELSE LET sk == Serialise(SkSchema(Indices[i]), extract_sk(Indices[i], rec))
         IN  LE(SerialiseSize(SkSchema(Indices[i]), extract_sk(Indices[i], rec)), 4)
             \o sk \o SkBundleReversed(rec, i - 1)

\* fault: the secondary keys written into the buffer last index first
populate_key_buf_reversed(rec, kb) ==
    LET bundle == LE(SerialiseSize(PkSchema, extract_pk(rec)), 4)
                  \o Serialise(PkSchema, extract_pk(rec))
                  \o SkBundleReversed(rec, Len(Indices))
        total == Len(bundle)
    IN  IF kb.null \/ kb.size < total
        THEN [null |-> FALSE, bytes |-> bundle, size |-> total]
        ELSE [null |-> FALSE, size |-> kb.size,
              bytes |-> bundle \o SubSeq(kb.bytes, total + 1, Len(kb.bytes))]

\* fault: the buffer reallocated to the size of each bundle
populate_key_buf_exact(rec, kb) ==
    [null |-> FALSE, bytes |-> Bundle(rec), size |-> Len(Bundle(rec))]

\* populate_key_buf_<rec>: the buffer grows when too small and is then
\* overwritten from its start; bytes beyond the bundle keep their old contents
populate_key_buf(rec, kb) ==
    LET total == Len(Bundle(rec))
    IN  IF kb.null \/ kb.size < total
        THEN [null |-> FALSE, bytes |-> Bundle(rec), size |-> total]
        ELSE [null |-> FALSE, size |-> kb.size,
              bytes |-> Bundle(rec) \o SubSeq(kb.bytes, total + 1, Len(kb.bytes))]

\* kvstore_key_buf_free
kvstore_key_buf_free(kb) == IF kb.null THEN kb ELSE KeyBufInit

RECURSIVE ParseOldSk(_, _, _)
\* the loop of kvstore.h:541-546: n length-prefixed keys read from offset p
ParseOldSk(buf, p, n) ==
    IF n = 0 THEN <<>>
    ELSE LET len == UnLE(SubSeq(buf, p + 1, p + 4))
         IN  << [len |-> len, buf |-> SubSeq(buf, p + 5, p + 4 + len)] >>
             \o ParseOldSk(buf, p + 4 + len, n - 1)

\* old primary key of a bundle, kvstore.h:242-246
OldPk(buf) == SubSeq(buf, 5, 4 + UnLE(SubSeq(buf, 1, 4)))

\* old secondary keys of a bundle, kvstore.h:533-546
OldSks(buf) == ParseOldSk(buf, 4 + UnLE(SubSeq(buf, 1, 4)), Len(Indices))

(* ---------------- indexed record operations, kvstore.h ---------------- *)

\* a backend call issued by an indexed operation: its arguments, its status and
\* the tables as it leaves them
LogEntry(op, table, key, rc, db) ==
    [op |-> op, table |-> table, key |-> key, rc |-> rc, db |-> db]

\* kvstore_put_<rec>: the primary table part of a put
kvstore_put_rec(t, db, rec, old_keys) ==
    LET new_pk == Serialise(PkSchema, extract_pk(rec))
        new_pk_sz == SerialiseSize(PkSchema, extract_pk(rec))
        is_update == old_keys.given /\ ~old_keys.kb.null
        old_pk_len == UnLE(SubSeq(old_keys.kb.bytes, 1, 4))
        old_pk_buf == OldPk(old_keys.kb.bytes)
        pk_changed == is_update /\ (old_pk_len # new_pk_sz
                                    \/ memcmp(old_pk_buf, new_pk, new_pk_sz) # 0)
        d == IF pk_changed THEN kvstore_txn_del(t, db, PkTable, old_pk_buf)
             ELSE [rc |-> KVSTORE_OK, db |-> db]
        dlog == IF pk_changed THEN << LogEntry("del", PkTable, old_pk_buf, d.rc, d.db) >> ELSE <<>>
        p == kvstore_txn_put(t, d.db, PkTable, new_pk, Serialise(RecSchema, rec))
    IN  [rc |-> p.rc, db |-> p.db,
         log |-> dlog \o << LogEntry("put", PkTable, new_pk, p.rc, p.db) >>]

\* fault: every index written to the table of the first index
put_sk_first_table(t, db, idx, rec, pk_buf) ==
    kvstore_txn_put(t, db, SkTable(Indices[1]),
                    Serialise(SkSchema(idx), extract_sk(idx, rec)), pk_buf)

\* kvstore_put_<rec>_<index>_internal
kvstore_put_sk_internal(t, db, idx, rec, pk_buf) ==
    kvstore_txn_put(t, db, SkTable(idx),
                    Serialise(SkSchema(idx), extract_sk(idx, rec)), pk_buf)

\* kvstore_del_<rec>_<index>_internal
kvstore_del_sk_internal(t, db, idx, sk_buf) == kvstore_txn_del(t, db, SkTable(idx), sk_buf)

\* fault: a change test that never reports a change
sk_never_changed(old, new_sk, sk_sz) == FALSE

\* fault: every key of the snapshot taken as changed
sk_always_changed(old, new_sk, sk_sz) == TRUE

\* the change test of KV_PUT_SK_WITH_CHANGE_DETECT
sk_changed(old, new_sk, sk_sz) == old.len # sk_sz \/ memcmp(old.buf, new_sk, sk_sz) # 0

RECURSIVE PutSkFrom(_, _, _, _, _, _, _)
\* KV_PUT_SK_WITH_CHANGE_DETECT expanded for the indices from i on
PutSkFrom(t, db, rec, pk_buf, old_keys, i, log) ==
    IF i > Len(Indices) THEN [rc |-> KVSTORE_OK, db |-> db, log |-> log]
    ELSE LET idx == Indices[i]
             new_sk == Serialise(SkSchema(idx), extract_sk(idx, rec))
             sk_sz == SerialiseSize(SkSchema(idx), extract_sk(idx, rec))
             is_update == old_keys.given /\ ~old_keys.kb.null
             changed == is_update /\ sk_changed(OldSks(old_keys.kb.bytes)[i], new_sk, sk_sz)
             old_sk == OldSks(old_keys.kb.bytes)[i].buf
             d == IF changed THEN kvstore_del_sk_internal(t, db, idx, old_sk)
                  ELSE [rc |-> KVSTORE_OK, db |-> db]
             dlog == IF changed THEN << LogEntry("del", SkTable(idx), old_sk, d.rc, d.db) >>
                     ELSE <<>>
             p == kvstore_put_sk_internal(t, d.db, idx, rec, pk_buf)
             log2 == log \o dlog \o << LogEntry("put", SkTable(idx), new_sk, p.rc, p.db) >>
         IN  IF p.rc # KVSTORE_OK THEN [rc |-> p.rc, db |-> p.db, log |-> log2]
             ELSE PutSkFrom(t, p.db, rec, pk_buf, old_keys, i + 1, log2)

\* fault: the indices updated first, the primary table last
kvstore_put_indices_first(t, db, rec, old_keys) ==
    LET s == PutSkFrom(t, db, rec, Serialise(PkSchema, extract_pk(rec)), old_keys, 1, <<>>)
        r == kvstore_put_rec(t, s.db, rec, old_keys)
    IN  IF s.rc # KVSTORE_OK THEN s
        ELSE [rc |-> r.rc, db |-> r.db, log |-> s.log \o r.log]

\* kvstore_put_<rec>_with_all_indices
kvstore_put_with_all_indices(t, db, rec, old_keys) ==
    LET r == kvstore_put_rec(t, db, rec, old_keys)
    IN  IF r.rc # KVSTORE_OK THEN r
        ELSE PutSkFrom(t, r.db, rec, Serialise(PkSchema, extract_pk(rec)), old_keys, 1, r.log)

\* fault: a get that clears the caller's record when it finds nothing
kvstore_get_rec_clearing(t, db, key, result, key_buf) ==
    LET g == kvstore_txn_get(t, db, PkTable, Serialise(PkSchema, key))
    IN  IF g.rc # KVSTORE_OK THEN [rc |-> g.rc, result |-> ZeroRec, kb |-> key_buf.kb]
        ELSE [rc |-> KVSTORE_OK,
              result |-> Deserialise(RecSchema, g.val, result),
              kb |-> IF key_buf.given
                     THEN populate_key_buf(Deserialise(RecSchema, g.val, result), key_buf.kb)
                     ELSE key_buf.kb]

\* kvstore_get_<rec>: result and key_buf are the caller's objects
kvstore_get_rec(t, db, key, result, key_buf) ==
    LET g == kvstore_txn_get(t, db, PkTable, Serialise(PkSchema, key))
    IN  IF g.rc # KVSTORE_OK THEN [rc |-> g.rc, result |-> result, kb |-> key_buf.kb]
        ELSE [rc |-> KVSTORE_OK,
              result |-> Deserialise(RecSchema, g.val, result),
              kb |-> IF key_buf.given
                     THEN populate_key_buf(Deserialise(RecSchema, g.val, result), key_buf.kb)
                     ELSE key_buf.kb]

\* kvstore_del_<rec>
kvstore_del_rec(t, db, key) == kvstore_txn_del(t, db, PkTable, Serialise(PkSchema, key))

\* kvstore_lookup_<rec>_<index>: pri_key_out is the caller's object
kvstore_lookup(t, db, idx, sec_key, pri_key_out) ==
    LET g == kvstore_txn_get(t, db, SkTable(idx), Serialise(SkSchema(idx), sec_key))
    IN  IF g.rc # KVSTORE_OK THEN [rc |-> g.rc, pk |-> pri_key_out]
        ELSE [rc |-> KVSTORE_OK, pk |-> Deserialise(PkSchema, g.val, pri_key_out)]

(* ---------------- state ---------------- *)

VARIABLES
    tables,    \* mem_db_t: the list of tables, each [name, pairs] with pairs sorted
    txns,      \* per transaction handle: "none" (not begun / freed), "rw" or "ro"
    key_buf,   \* the caller's kvstore_key_buf_t, reused across gets
    cur,       \* the caller's kvstore_cursor_t* with its mem_cursor_t
    iter,      \* history of the open cursor: how it was opened and what it returned
    last       \* the call made last: its arguments, status and outputs

vars == << tables, txns, key_buf, cur, iter, last >>

(* ---------------- input domains ---------------- *)

RECURSIVE Rep(_)
\* the string 'a'^n
Rep(n) == IF n = 0 THEN <<>> ELSE <<97>> \o Rep(n - 1)

\* sender values of the records put: a null pointer and the strings of 1..MaxStrLen
\* bytes (the empty string comes back from decoding a null one)
Strings == {NullStr} \cup { Str(Rep(n)) : n \in 1..MaxStrLen }
MailboxIds == {2}
Uids == {203, 204}
ThreadIds == {2003}
FlagVals == {255}

Records == [mailbox_id : MailboxIds, uid : Uids, sender : Strings,
            thread_id : ThreadIds, flags : FlagVals]
Pks == [mailbox_id : MailboxIds, uid : Uids]
SkKeys(idx) == IF idx = "by_sender" THEN [sender : Strings] ELSE [thread_id : ThreadIds]
IndexSet == { Indices[i] : i \in 1..Len(Indices) }

TxnIds == {1}

\* the handles of the live transactions
Handles == { txns[t] : t \in { u \in TxnIds : txns[u] # "none" } }

NoCall == [op |-> "none", rc |-> KVSTORE_OK, t |-> "null", rec |-> ZeroRec, snap |-> FALSE,
           pk |-> ZeroPk, idx |-> "", sk |-> <<>>, same |-> FALSE,
           key |-> <<>>, val |-> <<>>, log |-> <<>>]

\* start: the start key of cursor_open; moved: cursor_next was called; read: the
\* current position was returned by cursor_get; written: a put or del on the
\* cursor's table returned OK since the open; proto: the calls so far are one
\* cursor_get per position, each followed by cursor_next; seen: the entries
\* returned so far, kept while proto holds and nothing was written
NoIter == [start |-> NoStart, moved |-> FALSE, read |-> FALSE, written |-> FALSE,
           proto |-> TRUE, seen |-> <<>>]

Track(it) == IF it.proto /\ ~it.written THEN it ELSE [it EXCEPT !.seen = <<>>]

\* a cursor left open when its transaction is freed dangles
Dangle(c) == IF c.state = "open" THEN [NoCursor EXCEPT !.state = "dangling"] ELSE c

(* ---------------- actions ---------------- *)

Init ==
    /\ tables = <<>>
    /\ txns = [t \in TxnIds |-> "none"]
    /\ key_buf = KeyBufInit
    /\ cur = NoCursor
    /\ iter = NoIter
    /\ last = NoCall

\* kvstore_txn_begin / mem_txn_begin
TxnBegin(t, read_only) ==
    /\ txns[t] = "none"
    /\ txns' = [txns EXCEPT ![t] = IF read_only THEN "ro" ELSE "rw"]
    /\ last' = [NoCall EXCEPT !.op = "begin"]
    /\ UNCHANGED << tables, key_buf, cur, iter >>

\* kvstore_txn_commit / mem_txn_commit: frees the transaction, keeps the data
TxnCommit(t) ==
    /\ txns[t] # "none"
    /\ txns' = [txns EXCEPT ![t] = "none"]
    /\ last' = [NoCall EXCEPT !.op = "commit"]
    /\ cur' = Dangle(cur)
    /\ iter' = NoIter
    /\ UNCHANGED << tables, key_buf >>

\* fault: an abort that throws away the tables' contents
TxnAbortDiscard(t) ==
    /\ txns[t] # "none"
    /\ txns' = [txns EXCEPT ![t] = "none"]
    /\ last' = [NoCall EXCEPT !.op = "abort"]
    /\ cur' = Dangle(cur)
    /\ iter' = NoIter
    /\ tables' = [n \in 1..Len(tables) |-> [tables[n] EXCEPT !.pairs = <<>>]]
    /\ UNCHANGED key_buf

\* kvstore_txn_abort / mem_txn_abort: frees the transaction, keeps the data
TxnAbort(t) ==
    /\ txns[t] # "none"
    /\ txns' = [txns EXCEPT ![t] = "none"]
    /\ last' = [NoCall EXCEPT !.op = "abort"]
    /\ cur' = Dangle(cur)
    /\ iter' = NoIter
    /\ UNCHANGED << tables, key_buf >>

\* kvstore_put_<rec>_with_all_indices(txn, rec, old_keys)
Put(h, rec, snap) ==
    \E r \in { kvstore_put_with_all_indices(h, tables, rec,
                                              IF snap THEN Keys(key_buf) ELSE NoKeys) } :
        /\ tables' = r.db
        /\ last' = [NoCall EXCEPT !.op = "put", !.rc = r.rc, !.t = h, !.rec = rec,
                                  !.snap = snap, !.same = (r.db = tables)]
        /\ UNCHANGED << txns, key_buf, cur, iter >>

\* kvstore_get_<rec>(txn, key, &result, key_buf or NULL), result zeroed by the caller
Get(h, pk, capture) ==
    \E r \in { kvstore_get_rec(h, tables, pk, ZeroRec,
                                 IF capture THEN Keys(key_buf) ELSE NoKeys) } :
        /\ key_buf' = IF capture THEN r.kb ELSE key_buf
        /\ last' = [NoCall EXCEPT !.op = "get", !.rc = r.rc, !.t = h, !.pk = pk,
                                  !.snap = capture, !.rec = r.result]
        /\ UNCHANGED << tables, txns, cur, iter >>

\* kvstore_del_<rec>(txn, key)
Del(h, pk) ==
    \E r \in { kvstore_del_rec(h, tables, pk) } :
        /\ tables' = r.db
        /\ last' = [NoCall EXCEPT !.op = "del", !.rc = r.rc, !.t = h, !.pk = pk]
        /\ UNCHANGED << txns, key_buf, cur, iter >>

\* kvstore_lookup_<rec>_<index>(txn, sec_key, &pk), pk zeroed by the caller
Lookup(h, idx, sk) ==
    \E r \in { kvstore_lookup(h, tables, idx, sk, ZeroPk) } :
        /\ last' = [NoCall EXCEPT !.op = "lookup", !.rc = r.rc, !.t = h, !.idx = idx,
                                  !.sk = Serialise(SkSchema(idx), sk), !.pk = r.pk]
        /\ UNCHANGED << tables, txns, key_buf, cur, iter >>

\* kvstore_key_buf_free(&key_buf)
KeyBufFree ==
    /\ ~key_buf.null
    /\ key_buf' = kvstore_key_buf_free(key_buf)
    /\ last' = [NoCall EXCEPT !.op = "free"]
    /\ UNCHANGED << tables, txns, cur, iter >>

Next ==
    \/ \E t \in TxnIds : TxnBegin(t, FALSE)
    \/ \E t \in TxnIds : TxnCommit(t)
    \/ \E t \in TxnIds : TxnAbort(t)
    \/ \E h \in Handles, rec \in Records, snap \in BOOLEAN : Put(h, rec, snap)
    \/ \E h \in Handles, pk \in Pks, capture \in BOOLEAN : Get(h, pk, capture)
    \/ \E h \in Handles, pk \in Pks : Del(h, pk)
    \/ KeyBufFree

Spec == Init /\ [][Next]_vars

(* ---------------- the raw backend with a cursor ---------------- *)

RawTable == "t"
RawKeys == { <<97>>, <<97, 98>>, <<98>> }
RawVals == { <<1>>, <<2>> }
StartKeys == {NoStart} \cup { StartAt(k) : k \in RawKeys }

\* the cursor is open on the table called name
CursorOn(db, name) == cur.state = "open" /\ cur.table = find_table(db, name)

\* kvstore_txn_put on the raw table, while it has room for the key
KvPut(h, key, val) ==
    /\ \/ kvstore_txn_get(h, tables, RawTable, key).rc = KVSTORE_OK
       \/ Len(TablePairs(tables, RawTable)) < MaxEntries
    /\ \E r \in { kvstore_txn_put(h, tables, RawTable, key, val) } :
          /\ tables' = r.db
          /\ iter' = IF r.rc = KVSTORE_OK /\ CursorOn(r.db, RawTable)
                     THEN Track([iter EXCEPT !.written = TRUE]) ELSE iter
          /\ last' = [NoCall EXCEPT !.op = "kv_put", !.rc = r.rc, !.t = h,
                                    !.key = key, !.val = val]
    /\ UNCHANGED << txns, key_buf, cur >>

\* kvstore_txn_get on the raw table
KvGet(h, key) ==
    /\ \E r \in { kvstore_txn_get(h, tables, RawTable, key) } :
          last' = [NoCall EXCEPT !.op = "kv_get", !.rc = r.rc, !.t = h,
                                 !.key = key, !.val = r.val]
    /\ UNCHANGED << tables, txns, key_buf, cur, iter >>

\* kvstore_txn_del on the raw table
KvDel(h, key) ==
    /\ \E r \in { kvstore_txn_del(h, tables, RawTable, key) } :
          /\ tables' = r.db
          /\ iter' = IF r.rc = KVSTORE_OK /\ CursorOn(r.db, RawTable)
                     THEN Track([iter EXCEPT !.written = TRUE]) ELSE iter
          /\ last' = [NoCall EXCEPT !.op = "kv_del", !.rc = r.rc, !.t = h, !.key = key]
    /\ UNCHANGED << txns, key_buf, cur >>

\* kvstore_cursor_open into the caller's (NULL) cursor pointer
CursorOpen(h, start_key) ==
    /\ cur.state = "closed"
    /\ \E r \in { kvstore_cursor_open(h, tables, RawTable, start_key) } :
          /\ cur' = r.cur
          /\ iter' = [NoIter EXCEPT !.start = start_key]
          /\ last' = [NoCall EXCEPT !.op = "cursor_open", !.rc = r.rc, !.t = h,
                                    !.key = start_key.key]
    /\ UNCHANGED << tables, txns, key_buf >>

\* kvstore_cursor_get
CursorGet ==
    /\ cur.state # "dangling"
    /\ \E r \in { kvstore_cursor_get(cur, tables) } :
          /\ iter' = IF r.rc # KVSTORE_OK THEN iter
                     ELSE Track([iter EXCEPT !.read = TRUE,
                                             !.proto = @ /\ ~iter.read,
                                             !.seen = Append(@, [key |-> r.key,
                                                                 val |-> r.val])])
          /\ last' = [NoCall EXCEPT !.op = "cursor_get", !.rc = r.rc,
                                    !.key = r.key, !.val = r.val]
    /\ UNCHANGED << tables, txns, key_buf, cur >>

\* kvstore_cursor_next, while the index is at most MaxEntries
CursorNext ==
    /\ cur.state # "dangling"
    /\ cur.index <= MaxEntries
    /\ \E r \in { kvstore_cursor_next(cur, tables) } :
          /\ cur' = [cur EXCEPT !.index = r.index, !.valid = r.valid]
          /\ iter' = IF cur.state = "closed" THEN iter
                     ELSE Track([iter EXCEPT !.moved = TRUE, !.read = FALSE,
                                             !.proto = @ /\ (iter.read \/ ~cur.valid)])
          /\ last' = [NoCall EXCEPT !.op = "cursor_next", !.rc = r.rc]
    /\ UNCHANGED << tables, txns, key_buf >>

\* kvstore_cursor_get or kvstore_cursor_next on a dangling cursor reads the freed
\* transaction: any status may come back
CursorUseAfterFree(op) ==
    /\ cur.state = "dangling"
    /\ \E rc \in {KVSTORE_OK, KVSTORE_NOTFOUND, KVSTORE_ERROR} :
          last' = [NoCall EXCEPT !.op = op, !.rc = rc]
    /\ UNCHANGED << tables, txns, key_buf, cur, iter >>

\* kvstore_cursor_close, after which the caller's pointer is NULL again
CursorClose ==
    /\ cur.state # "closed"
    /\ cur' = NoCursor
    /\ iter' = NoIter
    /\ last' = [NoCall EXCEPT !.op = "cursor_close"]
    /\ UNCHANGED << tables, txns, key_buf >>

NextKV ==
    \/ \E t \in TxnIds : TxnBegin(t, FALSE)
    \/ \E t \in TxnIds : TxnCommit(t)
    \/ \E t \in TxnIds : TxnAbort(t)
    \/ \E h \in Handles, key \in RawKeys, val \in RawVals : KvPut(h, key, val)
    \/ \E h \in Handles, key \in RawKeys : KvGet(h, key)
    \/ \E h \in Handles, key \in RawKeys : KvDel(h, key)
    \/ \E h \in Handles, start_key \in StartKeys : CursorOpen(h, start_key)
    \/ CursorGet
    \/ CursorNext
    \/ \E op \in {"cursor_get", "cursor_next"} : CursorUseAfterFree(op)
    \/ CursorClose

SpecKV == Init /\ [][NextKV]_vars

(* ---------------- read-modify-write discipline ---------------- *)

\* the records held by the primary table, as kvstore_get_<rec> decodes them
LiveRecs(db) == { Deserialise(RecSchema, TablePairs(db, PkTable)[i].val, ZeroRec) :
                  i \in 1..Len(TablePairs(db, PkTable)) }

IsPrefix(p, b) == Len(p) <= Len(b) /\ SubSeq(b, 1, Len(p)) = p

\* key_buf holds the bundle that kvstore_get_<rec> captures for the record now
\* stored under the snapshot's primary key
FreshSnapshot ==
    /\ ~key_buf.null
    /\ \E r \in LiveRecs(tables) :
          /\ Serialise(PkSchema, extract_pk(r)) = OldPk(key_buf.bytes)
          /\ IsPrefix(Bundle(r), key_buf.bytes)

Stored(db, pk) == kvstore_txn_get("rw", db, PkTable, Serialise(PkSchema, pk)).rc = KVSTORE_OK

\* insert of a new primary key, without a snapshot
InsertNew(h, rec) ==
    /\ ~Stored(tables, extract_pk(rec))
    /\ Put(h, rec, FALSE)

\* update of the record whose snapshot key_buf holds; a changed primary key is new
UpdateWithSnapshot(h, rec) ==
    /\ FreshSnapshot
    /\ \/ Serialise(PkSchema, extract_pk(rec)) = OldPk(key_buf.bytes)
       \/ ~Stored(tables, extract_pk(rec))
    /\ Put(h, rec, TRUE)

NextRMW ==
    \/ \E t \in TxnIds : TxnBegin(t, FALSE)
    \/ \E t \in TxnIds : TxnCommit(t)
    \/ \E h \in Handles, rec \in Records : InsertNew(h, rec)
    \/ \E h \in Handles, pk \in Pks : Get(h, pk, TRUE)
    \/ \E h \in Handles, rec \in Records : UpdateWithSnapshot(h, rec)

SpecRMW == Init /\ [][NextRMW]_vars

(* ---------------- properties of the indexed record layer ---------------- *)

PutOK == last.op = "put" /\ last.rc = KVSTORE_OK

\* the put made last was given a snapshot bundle (old_keys && old_keys->buf)
PutWithSnapshot == PutOK /\ last.snap /\ ~key_buf.null

LookupIn(db, idx, sk) == kvstore_lookup("rw", db, idx, sk, ZeroPk)
GetIn(db, pk) == kvstore_get_rec("rw", db, pk, ZeroRec, NoKeys)
SkBytes(idx, rec) == Serialise(SkSchema(idx), extract_sk(idx, rec))
PkBytes(rec) == Serialise(PkSchema, extract_pk(rec))
ZeroSk(idx) == Extract(SkSchema(idx), ZeroRec)

\* C1: after a put with all indices returns OK, the lookup of every secondary
\* index by the key extracted from the record returns OK and yields exactly the
\* primary key extracted from the record.
Thm_C1 ==
    PutOK => \A i \in 1..Len(Indices) :
                 /\ LookupIn(tables, Indices[i], extract_sk(Indices[i], last.rec)).rc = KVSTORE_OK
                 /\ LookupIn(tables, Indices[i], extract_sk(Indices[i], last.rec)).pk
                       = extract_pk(last.rec)

Wit_C1 == PutWithSnapshot /\ Len(TablePairs(tables, SkTable("by_sender"))) >= 2

\* The secondary keys of the snapshot that differ from the new record's keys.
StaleIdx == { i \in 1..Len(Indices) :
                OldSks(key_buf.bytes)[i].buf # SkBytes(Indices[i], last.rec) }

\* C2: after a put with a snapshot, for every index whose serialized key in the
\* snapshot differs from the new record's key, the lookup of the old key returns
\* NotFound and the lookup of the new key returns the new record's primary key.
Thm_C2 ==
    PutWithSnapshot => \A i \in StaleIdx :
        /\ LookupIn(tables, Indices[i],
                    Deserialise(SkSchema(Indices[i]), OldSks(key_buf.bytes)[i].buf,
                                ZeroSk(Indices[i]))).rc = KVSTORE_NOTFOUND
        /\ LookupIn(tables, Indices[i], extract_sk(Indices[i], last.rec))
              = [rc |-> KVSTORE_OK, pk |-> extract_pk(last.rec)]

Wit_C2 == PutWithSnapshot /\ StaleIdx # {}

\* C3 (as claimed): under the read-modify-write discipline, after a successful
\* put each secondary table holds exactly the keys extracted from the live
\* records, and each entry's value is the primary key of a live record with
\* that key.
Claim_C3 ==
    PutOK => \A idx \in IndexSet :
        LET P == TablePairs(tables, SkTable(idx))
        IN  /\ { P[i].key : i \in 1..Len(P) } = { SkBytes(idx, r) : r \in LiveRecs(tables) }
            /\ \A i \in 1..Len(P) : \E r \in LiveRecs(tables) :
                   PkBytes(r) = P[i].val /\ SkBytes(idx, r) = P[i].key

\* C4 (as claimed): after put(v) returns OK, get of v's primary key returns OK
\* with a record equal to v in every field.
Claim_C4 ==
    PutOK => /\ GetIn(tables, extract_pk(last.rec)).rc = KVSTORE_OK
             /\ GetIn(tables, extract_pk(last.rec)).result = last.rec

DelOK == last.op = "del" /\ last.rc = KVSTORE_OK

\* C5: a delete that returns OK leaves its primary key NotFound and every other
\* primary key with the result of get it had before; a primary key that get
\* does not find is found again only after a put of a record with that key.
Thm_C5 ==
    [][ /\ (last'.op = "del" /\ last'.rc = KVSTORE_OK) =>
              /\ GetIn(tables', last'.pk).rc = KVSTORE_NOTFOUND
              /\ \A pk \in Pks \ {last'.pk} : GetIn(tables', pk) = GetIn(tables, pk)
        /\ \A pk \in Pks :
              (GetIn(tables, pk).rc = KVSTORE_NOTFOUND /\ GetIn(tables', pk).rc = KVSTORE_OK)
                  => (last'.op = "put" /\ extract_pk(last'.rec) = pk) ]_vars

Wit_C5 == DelOK /\ \E pk \in Pks \ {last.pk} : GetIn(tables, pk).rc = KVSTORE_OK

\* C6 (as claimed): after a delete of a stored record returns OK, no lookup in
\* any secondary index returns the deleted primary key.
Claim_C6 ==
    DelOK => \A idx \in IndexSet : \A sk \in SkKeys(idx) :
                 ~ (LookupIn(tables, idx, sk) = [rc |-> KVSTORE_OK, pk |-> last.pk])

\* the primary entry and every secondary entry that a put of rec writes are in db
StoredAsPut(db, rec) ==
    /\ kvstore_txn_get("rw", db, PkTable, PkBytes(rec))
          = [rc |-> KVSTORE_OK, val |-> Serialise(RecSchema, rec)]
    /\ \A idx \in IndexSet :
          kvstore_txn_get("rw", db, SkTable(idx), SkBytes(idx, rec))
             = [rc |-> KVSTORE_OK, val |-> PkBytes(rec)]

\* C7: a put of a record with the snapshot bundle of that same record, made
\* when the store holds what a put of the record writes, changes no key and no
\* value of any table.
Thm_C7 ==
    [][ ( /\ last'.op = "put" /\ last'.rc = KVSTORE_OK /\ last'.snap
          /\ ~key_buf.null
          /\ IsPrefix(Bundle(last'.rec), key_buf.bytes)
          /\ StoredAsPut(tables, last'.rec) )
        => tables' = tables ]_vars

Wit_C7 == /\ PutWithSnapshot
          /\ IsPrefix(Bundle(last.rec), key_buf.bytes)
          /\ last.same

\* the stored records of other primary keys whose key in index idx has the
\* same bytes as rec's
Colliding(db, idx, rec) ==
    { r \in LiveRecs(db) : PkBytes(r) # PkBytes(rec) /\ SkBytes(idx, r) = SkBytes(idx, rec) }

\* the put made in this step leaves other primary keys alone: it has no
\* snapshot, or a snapshot of the same primary key
KeepsOtherPks(rec, snap) ==
    ~snap \/ key_buf.null \/ OldPk(key_buf.bytes) = PkBytes(rec)

RECURSIVE LexLess(_, _)
\* byte-lexicographic order, a proper prefix before the longer string
LexLess(a, b) ==
    IF a = <<>> THEN b # <<>>
    ELSE IF b = <<>> THEN FALSE
    ELSE IF a[1] # b[1] THEN a[1] < b[1]
    ELSE LexLess(Tail(a), Tail(b))

\* the entries of the table the open cursor points to
CurPairs == tables[cur.table + 1].pairs

\* an iteration from the beginning of the table: one cursor_get per position,
\* each followed by cursor_next, and no write to the table
CleanIteration == cur.state = "open" /\ iter.start.null /\ iter.proto /\ ~iter.written

Exhausted == last.op = "cursor_next" /\ last.rc = KVSTORE_NOTFOUND

\* C9: in an iteration from the beginning without writes, the entries returned
\* so far are the first entries of the table, each once, with strictly
\* ascending keys (a prefix before its extensions); when cursor_next returns
\* NotFound every entry of the table has been returned.
Thm_C9 ==
    CleanIteration =>
        /\ IsPrefix(iter.seen, CurPairs)
        /\ \A i, j \in 1..Len(iter.seen) :
              i < j => LexLess(iter.seen[i].key, iter.seen[j].key)
        /\ Exhausted => Len(iter.seen) = Len(CurPairs)

Wit_C9 == /\ CleanIteration /\ Exhausted
          /\ Len(iter.seen) >= 2
          /\ IsPrefix(iter.seen[1].key, iter.seen[2].key)

HasStart == cur.state = "open" /\ ~iter.start.null

\* positions of the entries whose key is not below the start key
AtOrAfterStart == { i \in 1..Len(CurPairs) : ~LexLess(CurPairs[i].key, iter.start.key) }

\* the entry with the smallest key that is not below the start key
SmallestAtOrAfterStart ==
    CurPairs[CHOOSE i \in AtOrAfterStart :
                \A j \in AtOrAfterStart : ~LexLess(CurPairs[j].key, CurPairs[i].key)]

\* a cursor_get made before any cursor_next returns the smallest entry not
\* below the start key, or fails when there is none
FirstGetAtStart ==
    (last.op = "cursor_get" /\ ~iter.moved) =>
        IF AtOrAfterStart = {} THEN last.rc # KVSTORE_OK
        ELSE /\ last.rc = KVSTORE_OK
             /\ last.key = SmallestAtOrAfterStart.key
             /\ last.val = SmallestAtOrAfterStart.val

NoneBelowStart ==
    (last.op = "cursor_get" /\ last.rc = KVSTORE_OK) => ~LexLess(last.key, iter.start.key)

\* C10 (as claimed, its last part): no cursor_get on a cursor opened with a
\* start key ever returns an entry with a key smaller than the start key.
Claim_C10 == HasStart => NoneBelowStart

\* C10 (amended): a cursor opened with a start key is positioned at the
\* smallest key >= the start key; as long as no put or del on the table has
\* returned OK since the open, the first cursor_get returns that entry and no
\* cursor_get returns a key smaller than the start key.
Thm_C10 ==
    (HasStart /\ ~iter.written) =>
        /\ ~iter.moved =>
              /\ cur.index = Cardinality({ i \in 1..Len(CurPairs) :
                                             LexLess(CurPairs[i].key, iter.start.key) })
              /\ cur.valid = (AtOrAfterStart # {})
        /\ FirstGetAtStart
        /\ NoneBelowStart

Wit_C10 == /\ HasStart /\ ~iter.written /\ ~iter.moved
           /\ last.op = "cursor_get" /\ last.rc = KVSTORE_OK
           /\ cur.index > 0
           /\ LexLess(iter.start.key, last.key)

\* C11 (as claimed): cursor_get on an exhausted cursor, one moved past the last
\* entry by cursor_next or opened with a start key above every key, with no
\* write to the table since, returns NotFound.
Claim_C11 ==
    ( /\ cur.state = "open" /\ ~iter.written
      /\ cur.index >= Len(CurPairs)
      /\ last.op = "cursor_get" )
    => last.rc = KVSTORE_NOTFOUND

(* ---------------- C12: the backend refines a map per table ---------------- *)
\* the abstract map of a table, read off the pairs one by one without the
\* binary search: the set of values stored under a key (empty: no entry)
AbsVals(db, name, key) ==
    UNION { { t.pairs[i].val : i \in { j \in 1..Len(t.pairs) : t.pairs[j].key = key } }
            : t \in { db[n] : n \in { m \in 1..Len(db) : db[m].name = name } } }

AbsCount(db, name) ==
    Cardinality({ k \in RawKeys : AbsVals(db, name, k) # {} })

OtherKeysKept(key) ==
    \A k \in RawKeys \ {key} :
        AbsVals(tables', RawTable, k) = AbsVals(tables, RawTable, k)

MapStep ==
    /\ (last'.op = "kv_put" /\ last'.rc = KVSTORE_OK) =>
          /\ AbsVals(tables', RawTable, last'.key) = {last'.val}
          /\ OtherKeysKept(last'.key)
          /\ AbsVals(tables, RawTable, last'.key) # {} =>
                /\ Len(TablePairs(tables', RawTable)) = Len(TablePairs(tables, RawTable))
                /\ AbsCount(tables', RawTable) = AbsCount(tables, RawTable)
    /\ (last'.op = "kv_del" /\ last'.rc = KVSTORE_OK) =>
          /\ AbsVals(tables', RawTable, last'.key) = {}
          /\ OtherKeysKept(last'.key)
    /\ last'.op = "kv_get" =>
          \/ last'.rc = KVSTORE_OK /\ AbsVals(tables, RawTable, last'.key) = {last'.val}
          \/ last'.rc = KVSTORE_NOTFOUND /\ AbsVals(tables, RawTable, last'.key) = {}
    /\ ~(last'.op \in {"kv_put", "kv_del"} /\ last'.rc = KVSTORE_OK) =>
          \A k \in RawKeys :
              AbsVals(tables', RawTable, k) = AbsVals(tables, RawTable, k)

\* C12: every step of the in-memory backend is a step of an abstract map per
\* table: a put sets the key's value and leaves the other keys alone (and on a
\* stored key leaves the number of entries alone), a del removes the key only,
\* a get returns OK with the mapped value or NotFound when there is none, and
\* no other operation changes the map.
Thm_C12 == [][MapStep]_vars

\* a get finds a key in a table holding the full number of entries
Wit_C12 ==
    /\ last.op = "kv_get" /\ last.rc = KVSTORE_OK
    /\ Len(TablePairs(tables, RawTable)) = MaxEntries
    /\ AbsVals(tables, RawTable, last.key) = {last.val}

(* ---------------- C13: get and del of a key that is not stored ---------------- *)
MissStep ==
    ( /\ last'.op \in {"kv_get", "kv_del"}
      /\ AbsVals(tables, RawTable, last'.key) = {} )
    => /\ last'.rc = KVSTORE_NOTFOUND
       /\ tables' = tables

\* C13: a get or del of a key that is not stored, in a table that exists or in
\* one that was never written, returns NotFound and changes neither any table's
\* pairs nor the list of tables.
Thm_C13 == [][MissStep]_vars

\* a del answered NotFound while no table exists at all
Wit_C13 ==
    /\ last.op = "kv_del" /\ last.rc = KVSTORE_NOTFOUND
    /\ tables = <<>>

(* ---------------- C14: every table is strictly sorted ---------------- *)
StrictlySorted(pairs) ==
    \A i \in 1..Len(pairs) : \A j \in 1..Len(pairs) :
        i < j => LexLess(pairs[i].key, pairs[j].key)

\* C14: in every reachable state each table's pairs are in strictly ascending
\* byte-lexicographic key order, so no key occurs twice in a table.
Thm_C14 ==
    \A n \in 1..Len(tables) :
        /\ StrictlySorted(tables[n].pairs)
        /\ \A i \in 1..Len(tables[n].pairs) : \A j \in 1..Len(tables[n].pairs) :
              tables[n].pairs[i].key = tables[n].pairs[j].key => i = j

\* a put has just inserted a new key in front of a stored one
Wit_C14 ==
    /\ last.op = "kv_put" /\ last.rc = KVSTORE_OK
    /\ Len(TablePairs(tables, RawTable)) = 2
    /\ TablePairs(tables, RawTable)[1].key = last.key
    /\ TablePairs(tables, RawTable)[1].val = last.val

(* ---------------- C15: txn_abort does not roll back ---------------- *)
AbortStep ==
    last'.op \in {"abort", "begin"} =>
        /\ tables' = tables
        /\ \A k \in RawKeys :
              kvstore_txn_get("rw", tables', RawTable, k)
                  = kvstore_txn_get("rw", tables, RawTable, k)

\* C15: txn_abort leaves every table as the transaction's puts and dels made
\* it, and so does the txn_begin that follows: a get in a later transaction
\* returns what a get just before the abort returned.
Thm_C15 == [][AbortStep]_vars

\* a transaction that stored pairs has just been aborted and the pairs remain
Wit_C15 ==
    /\ last.op = "abort"
    /\ Len(TablePairs(tables, RawTable)) > 0
    /\ \A t \in TxnIds : txns[t] = "none"

(* ---------------- C16: errors of the sub-operations of the indexed put ---------------- *)
\* the transaction pointers a caller can pass: the live handles, and NULL, which
\* is what kvstore_txn_begin returns when it fails
TxnArgs == Handles \cup {"null"}

\* the backend calls of a log, without the tables they left
Calls(log) ==
    [j \in 1..Len(log) |-> [op |-> log[j].op, table |-> log[j].table,
                             key |-> log[j].key, rc |-> log[j].rc]]

\* kvstore_put_<rec>_with_all_indices, with the sub-operations it issued on
\* record
PutTraced(h, rec, snap) ==
    \E r \in { kvstore_put_with_all_indices(h, tables, rec,
                                              IF snap THEN Keys(key_buf) ELSE NoKeys) } :
        /\ tables' = r.db
        /\ last' = [NoCall EXCEPT !.op = "put", !.rc = r.rc, !.t = h, !.rec = rec,
                                  !.snap = snap, !.same = (r.db = tables),
                                  !.log = Calls(r.log)]
        /\ UNCHANGED << txns, key_buf, cur, iter >>

NextErr ==
    \/ \E t \in TxnIds : TxnBegin(t, FALSE)
    \/ \E t \in TxnIds : TxnCommit(t)
    \/ \E h \in Handles, pk \in Pks : Get(h, pk, TRUE)
    \/ \E h \in TxnArgs, rec \in Records, snap \in BOOLEAN : PutTraced(h, rec, snap)

SpecErr == Init /\ [][NextErr]_vars

\* C16 (as claimed): in an indexed put, a sub-operation that returns the error
\* status is the last one issued, and its status is the put's status.
Claim_C16 ==
    last.op = "put" =>
        \A i \in 1..Len(last.log) :
            last.log[i].rc = KVSTORE_ERROR =>
                /\ i = Len(last.log)
                /\ last.rc = KVSTORE_ERROR

(* ---------------- the codecs as pure functions: two values, encoded ---------------- *)

\* leading parts and limbs the integer inputs are built from: every 8-bit value,
\* and for the wider types the values around zero, around the byte carries and
\* at both ends of the range
Tops(tag) ==
    IF IntBytes(tag) = 1
    THEN (IF Signed(tag) THEN -128..127 ELSE 0..255)
    ELSE IF LowLimbs(tag) = 0
    THEN (IF Signed(tag)
          THEN {-32768, -32767, -257, -256, -255, -1, 0, 1, 255, 256, 257, 32766, 32767}
          ELSE {0, 1, 255, 256, 257, 32767, 32768, 65279, 65280, 65534, 65535})
    ELSE (IF Signed(tag) THEN {-32768, -256, -1, 0, 1, 255, 32767}
          ELSE {0, 1, 255, 256, 32767, 32768, 65535})

LimbVals == {0, 256, 65535}

RECURSIVE LimbSeqs(_)
LimbSeqs(n) ==
    IF n = 0 THEN { <<>> }
    ELSE { <<l>> \o r : l \in LimbVals, r \in LimbSeqs(n - 1) }

IntValues(tag) == { Word(t, l) : t \in Tops(tag), l \in LimbSeqs(LowLimbs(tag)) }

OrderCall(tag, a, b) ==
    [op |-> "args", tag |-> tag, a |-> a, b |-> b, ea |-> <<>>, eb |-> <<>>]

\* the strings of at most MaxKeyStrLen characters over 'a' and 'b'
KeyChars == {97, 98}

RECURSIVE CharSeqs(_)
CharSeqs(n) ==
    IF n = 0 THEN { <<>> }
    ELSE CharSeqs(n - 1) \cup { Append(cs, c) : cs \in CharSeqs(n - 1), c \in KeyChars }

KeyStrings == { Str(cs) : cs \in CharSeqs(MaxKeyStrLen) }

\* instants around the epoch, around the carries between the packed parts, at
\* both ends of the 34-bit and 30-bit ranges and just outside them
TimeValues ==
    { Timespec(h, l, n) : h \in {-32769, -32768, -1, 0, 1, 32767, 32768},
                          l \in {0, 1, 3, 4, 262143},
                          n \in {0, 1, 65535, 65536, 999999999, 1073741823, 1073741824} }

\* the values of a tag
Values(tag) == IF tag \in IntTags THEN IntValues(tag)
               ELSE IF tag = "timespec" THEN TimeValues
               ELSE KeyStrings

OrderTags == IntTags \cup {"charptr", "timespec"}

\* TYPE_ENC(tag, buf, v): the dispatch on the tag
EncodeArg(tag, v) == IF tag \in IntTags THEN TYPE_ENC_int(tag, v) ELSE TYPE_ENC(tag, v)

InitOrder ==
    /\ tables = <<>>
    /\ txns = [t \in TxnIds |-> "none"]
    /\ key_buf = KeyBufInit
    /\ cur = NoCursor
    /\ iter = NoIter
    /\ \E tag \in OrderTags : \E a \in Values(tag), b \in Values(tag) :
          last = OrderCall(tag, a, b)

\* both values are encoded, each into a buffer of its own
Encode ==
    /\ last.op = "args"
    /\ last' = [last EXCEPT !.op = "encoded",
                            !.ea = EncodeArg(last.tag, last.a),
                            !.eb = EncodeArg(last.tag, last.b)]
    /\ UNCHANGED << tables, txns, key_buf, cur, iter >>

NextOrder == Encode

SpecOrder == InitOrder /\ [][NextOrder]_vars

(* ---------------- C17: integer sortability ---------------- *)
RECURSIVE LimbsLess(_, _)
LimbsLess(x, y) ==
    /\ x # <<>>
    /\ \/ Head(x) < Head(y)
       \/ Head(x) = Head(y) /\ LimbsLess(Tail(x), Tail(y))

\* a < b as numbers
WordLess(a, b) == a.top < b.top \/ (a.top = b.top /\ LimbsLess(a.low, b.low))

IntEncoded == last.op = "encoded" /\ last.tag \in IntTags

\* C17: for each of the eight integer tags and all values a, b of the tag, a < b
\* exactly when encode(a) is byte-lexicographically below encode(b), a = b
\* exactly when the encodings are equal, and every negative signed value encodes
\* below every non-negative one.
Thm_C17 ==
    IntEncoded =>
        /\ WordLess(last.a, last.b) <=> LexLess(last.ea, last.eb)
        /\ last.a = last.b <=> last.ea = last.eb
        /\ Len(last.ea) = IntBytes(last.tag)
        /\ (Signed(last.tag) /\ last.a.top < 0 /\ last.b.top >= 0)
               => LexLess(last.ea, last.eb)

\* the least 64-bit value and zero, encoded
Wit_C17 ==
    /\ IntEncoded /\ last.tag = "i64"
    /\ last.a = Word(-32768, <<0, 0, 0>>) /\ last.b = Word(0, <<0, 0, 0>>)
    /\ last.ea = <<0, 0, 0, 0, 0, 0, 0, 0>>
    /\ last.eb = <<128, 0, 0, 0, 0, 0, 0, 0>>

(* ---------------- C18: the order of charptr encodings ---------------- *)
StrEncoded == last.op = "encoded" /\ last.tag = "charptr"

\* strcmp(a, b) < 0: the first differing byte decides, a proper prefix is below
StrLess(a, b) == LexLess(a.chars, b.chars)

\* C18 (as claimed): encode(a) is byte-lexicographically below encode(b) exactly
\* when a is below b as a string.
Claim_C18 ==
    StrEncoded => (LexLess(last.ea, last.eb) <=> StrLess(last.a, last.b))

\* C18 (amended): encode(a) is byte-lexicographically below encode(b) exactly
\* when a is shorter than b, or as long as b and below it as a string.
Thm_C18 ==
    StrEncoded =>
        ( LexLess(last.ea, last.eb)
            <=> \/ Len(last.a.chars) < Len(last.b.chars)
                \/ /\ Len(last.a.chars) = Len(last.b.chars)
                   /\ StrLess(last.a, last.b) )

\* "b" and "aa": the shorter string encodes below the longer one
Wit_C18 ==
    /\ StrEncoded
    /\ last.a = Str(<<98>>) /\ last.b = Str(<<97, 97>>)
    /\ LexLess(last.ea, last.eb)
    /\ ~StrLess(last.a, last.b)

(* ---------------- C19: timespec sortability ---------------- *)
TimeEncoded == last.op = "encoded" /\ last.tag = "timespec"

\* seconds in [-2^33, 2^33) and nanoseconds in [0, 2^30)
InTimeRange(v) ==
    /\ -32768 <= v.sec_hi /\ v.sec_hi <= 32767
    /\ 0 <= v.nsec /\ v.nsec < 1073741824

\* a is before b: the seconds first, then the nanoseconds
Before(a, b) ==
    \/ a.sec_hi < b.sec_hi
    \/ a.sec_hi = b.sec_hi /\ a.sec_lo < b.sec_lo
    \/ a.sec_hi = b.sec_hi /\ a.sec_lo = b.sec_lo /\ a.nsec < b.nsec

\* C19: for two timespec values with seconds in [-2^33, 2^33) and nanoseconds
\* in [0, 2^30), the 8-byte encoding of a is byte-lexicographically below that
\* of b exactly when a is before b, negative seconds included, and the
\* encodings are equal exactly when the values are.
Thm_C19 ==
    (TimeEncoded /\ InTimeRange(last.a) /\ InTimeRange(last.b)) =>
        /\ Len(last.ea) = 8 /\ Len(last.eb) = 8
        /\ LexLess(last.ea, last.eb) <=> Before(last.a, last.b)
        /\ last.ea = last.eb <=> last.a = last.b

\* one nanosecond before the epoch against the epoch
Wit_C19 ==
    /\ TimeEncoded
    /\ last.a = Timespec(-1, 262143, 999999999) /\ last.b = Timespec(0, 0, 0)
    /\ last.ea = <<127, 255, 255, 255, 251, 154, 201, 255>>
    /\ last.eb = <<128, 0, 0, 0, 0, 0, 0, 0>>

(* ---------------- the key serialisers as pure functions: two keys, serialised ---------------- *)

\* the primary key, the indices of the record, and the compound index on
\* mailbox and time of arrival
KeyNames == {"pk", "by_mailbox_time"} \cup IndexSet

\* the fields of SERIALISE_PRIMARY_KEY / SERIALISE_SECONDARY_KEY
KeySchema(k) ==
    IF k = "pk" THEN PkSchema
    ELSE IF k = "by_mailbox_time"
    THEN << Field("mailbox_id", "u32"), Field("received", "timespec") >>
    ELSE SkSchema(k)

\* instants before, at and after the epoch
KeyTimes == { Timespec(-1, 262143, 999999999), Timespec(0, 0, 0), Timespec(0, 0, 1),
              Timespec(0, 1, 0), Timespec(1, 0, 0) }

\* key structs with field values on both sides of a byte carry
KeyValues(k) ==
    IF k = "pk" THEN [mailbox_id : {1, 2, 256}, uid : {1, 255, 256}]
    ELSE IF k = "by_sender" THEN [sender : KeyStrings]
    ELSE IF k = "by_mailbox_time" THEN [mailbox_id : {1, 2}, received : KeyTimes]
    ELSE [thread_id : {1, 255, 256, 65536}]

InitKeyOrder ==
    /\ tables = <<>>
    /\ txns = [t \in TxnIds |-> "none"]
    /\ key_buf = KeyBufInit
    /\ cur = NoCursor
    /\ iter = NoIter
    /\ \E k \in KeyNames : \E a \in KeyValues(k), b \in KeyValues(k) :
          last = [op |-> "keys", tag |-> k, a |-> a, b |-> b, ea |-> <<>>, eb |-> <<>>]

\* serialise_<rec>_<key> on both key structs
SerialiseKeys ==
    /\ last.op = "keys"
    /\ last' = [last EXCEPT !.op = "serialised",
                            !.ea = Serialise(KeySchema(last.tag), last.a),
                            !.eb = Serialise(KeySchema(last.tag), last.b)]
    /\ UNCHANGED << tables, txns, key_buf, cur, iter >>

NextKeyOrder == SerialiseKeys

SpecKeyOrder == InitKeyOrder /\ [][NextKeyOrder]_vars

(* ---------------- C20: the order of serialised key tuples ---------------- *)
\* strings compared by length first, then byte-wise
ShortLess(a, b) ==
    \/ Len(a.chars) < Len(b.chars)
    \/ Len(a.chars) = Len(b.chars) /\ StrLess(a, b)

\* one field value against another: numbers numerically, instants by time,
\* strings byte-wise (bylen false) or by length first (bylen true)
FieldLess(tag, a, b, bylen) ==
    IF tag = "charptr" THEN (IF bylen THEN ShortLess(a, b) ELSE StrLess(a, b))
    ELSE IF tag = "timespec" THEN Before(a, b)
    ELSE a < b

RECURSIVE TupleLess(_, _, _, _)
\* A < B as tuples of field values compared in field order
TupleLess(schema, A, B, bylen) ==
    /\ schema # <<>>
    /\ \/ FieldLess(Head(schema).tag, A[Head(schema).name], B[Head(schema).name], bylen)
       \/ /\ A[Head(schema).name] = B[Head(schema).name]
          /\ TupleLess(Tail(schema), A, B, bylen)

KeysSerialised == last.op = "serialised"

\* C20 (as claimed): for every key schema, A below B as a tuple of field values,
\* strings compared byte-wise, makes the serialised key of A byte-
\* lexicographically less than that of B.
Claim_C20 ==
    (KeysSerialised /\ TupleLess(KeySchema(last.tag), last.a, last.b, FALSE))
        => LexLess(last.ea, last.eb)

\* C20 (amended): for every key schema, A below B as a tuple of field values,
\* integers compared numerically, instants by time and strings by length first
\* and then byte-wise, makes the serialised key of A byte-lexicographically less than
\* that of B; keys sharing a leading field value are ordered by the next fields.
Thm_C20 ==
    KeysSerialised =>
        ( TupleLess(KeySchema(last.tag), last.a, last.b, TRUE)
            <=> LexLess(last.ea, last.eb) )

\* two primary keys of one mailbox whose uids differ across a byte carry
Wit_C20 ==
    /\ KeysSerialised /\ last.tag = "pk"
    /\ last.a = [mailbox_id |-> 2, uid |-> 255]
    /\ last.b = [mailbox_id |-> 2, uid |-> 256]
    /\ last.ea = <<0, 0, 0, 2, 0, 0, 0, 255>>
    /\ last.eb = <<0, 0, 0, 2, 0, 0, 1, 0>>

(* ---------------- schemas of scalar and array items, serialise.h:244-358 ---------------- *)

\* SERIALISE_FIELD(name, type) and SERIALISE_FIELD(name, type, count)
Scalar(n, t) == [kind |-> "SCALAR", name |-> n, tag |-> t, count |-> 1]
Array(n, t, c) == [kind |-> "ARRAY", name |-> n, tag |-> t, count |-> c]

\* TYPE_DEC(tag, buf, l): the dispatch on the tag
DecodeArg(tag, buf) == IF tag \in IntTags THEN TYPE_DEC_int(tag, buf)
                       ELSE IF tag = "timespec" THEN TYPE_DEC_timespec(buf)
                       ELSE TYPE_DEC(tag, buf)

RECURSIVE ArraySize(_, _, _, _)
\* the loop of ITEM_SIZE_ARRAY from element i on (0-based)
ArraySize(tag, arr, i, count) ==
    IF i >= count THEN 0
    ELSE TYPE_SIZEOF(tag, arr[i + 1]) + ArraySize(tag, arr, i + 1, count)

RECURSIVE ArrayEnc(_, _, _, _)
\* the loop of ITEM_ENC_ARRAY
ArrayEnc(tag, arr, i, count) ==
    IF i >= count THEN <<>>
    ELSE EncodeArg(tag, arr[i + 1]) \o ArrayEnc(tag, arr, i + 1, count)

RECURSIVE ArrayDec(_, _, _, _, _)
\* the loop of ITEM_DEC_ARRAY: the array after the loop and the bytes consumed
ArrayDec(tag, buf, arr, i, count) ==
    IF i >= count THEN [val |-> arr, used |-> 0]
    ELSE LET d == DecodeArg(tag, buf)
             rest == ArrayDec(tag, SubSeq(buf, d.used + 1, Len(buf)),
                              [arr EXCEPT ![i + 1] = d.val], i + 1, count)
         IN  [val |-> rest.val, used |-> d.used + rest.used]

\* ITEM_SIZE_SCALAR / ITEM_SIZE_ARRAY
ITEM_SIZE(item, r) ==
    IF item.kind = "SCALAR" THEN TYPE_SIZEOF(item.tag, r[item.name])
    ELSE ArraySize(item.tag, r[item.name], 0, item.count)

\* ITEM_ENC_SCALAR / ITEM_ENC_ARRAY
ITEM_ENC(item, r) ==
    IF item.kind = "SCALAR" THEN EncodeArg(item.tag, r[item.name])
    ELSE ArrayEnc(item.tag, r[item.name], 0, item.count)

\* ITEM_DEC_SCALAR / ITEM_DEC_ARRAY: the value stored into r->name
ITEM_DEC(item, buf, r) ==
    IF item.kind = "SCALAR" THEN DecodeArg(item.tag, buf)
    ELSE ArrayDec(item.tag, buf, r[item.name], 0, item.count)

RECURSIVE serialise_S_size(_, _)
\* serialise_<S>_size(r)
serialise_S_size(items, r) ==
    IF items = <<>> THEN 0
    ELSE ITEM_SIZE(Head(items), r) + serialise_S_size(Tail(items), r)

RECURSIVE serialise_S(_, _)
\* serialise_<S>(buf, r): the bytes written from buf on; the returned pointer
\* is buf plus their number
serialise_S(items, r) ==
    IF items = <<>> THEN <<>>
    ELSE ITEM_ENC(Head(items), r) \o serialise_S(Tail(items), r)

RECURSIVE deserialise_S_zeroing(_, _, _)
\* fault: a decoder that also clears a field it was not given, the uid
deserialise_S_zeroing(items, buf, r) ==
    IF items = <<>> THEN [r |-> r, used |-> 0]
    ELSE LET d == ITEM_DEC(Head(items), buf, r)
             rest == deserialise_S_zeroing(Tail(items), SubSeq(buf, d.used + 1, Len(buf)),
                                            [n \in DOMAIN r |->
                                                IF n = Head(items).name THEN d.val
                                                ELSE IF n = "uid" THEN Word(0, <<0>>)
                                                ELSE r[n]])
         IN  [r |-> rest.r, used |-> d.used + rest.used]

RECURSIVE deserialise_S(_, _, _)
\* deserialise_<S>(buf, r): the record after the call and the bytes consumed
\* (the returned pointer is buf plus their number)
deserialise_S(items, buf, r) ==
    IF items = <<>> THEN [r |-> r, used |-> 0]
    ELSE LET d == ITEM_DEC(Head(items), buf, r)
             rest == deserialise_S(Tail(items), SubSeq(buf, d.used + 1, Len(buf)),
                                   [r EXCEPT ![Head(items).name] = d.val])
         IN  [r |-> rest.r, used |-> d.used + rest.used]

(* ---------------- the schemas the codec is run on ---------------- *)

\* SERIALISE(ir, ...) and SERIALISE(flags, ...) over struct index_record, and a
\* schema of signed and unsigned integers of every width
CodecSchemas == {"ir", "flags", "ints"}

Items(S) ==
    CASE S = "ir" -> << Scalar("uid", "u32"), Scalar("internaldate", "timespec"),
                        Scalar("subject", "charptr"), Scalar("cache_offset", "size"),
                        Scalar("system_flags", "u32"), Array("user_flags", "u32", 2),
                        Scalar("cache_version", "u16") >>
      [] S = "flags" -> << Scalar("system_flags", "u32"), Array("user_flags", "u32", 2) >>
      [] S = "ints" -> << Scalar("a", "i8"), Scalar("b", "i16"), Scalar("c", "i32"),
                          Scalar("d", "i64"), Scalar("e", "u8"), Scalar("f", "u64") >>

\* struct index_record values: the example's, the extremes, a time before the
\* epoch and one beyond the 34 bits
IrValues ==
    [uid : {Word(0, <<123>>), Word(65535, <<65535>>)},
     internaldate : {Timespec(6484, 258304, 123456789), Timespec(-1, 262143, 999999999),
                     Timespec(32768, 0, 0)},
     subject : {NullStr, Str(<<>>), Str(<<72, 105>>)},
     cache_offset : {42},
     system_flags : {Word(42405, <<42405>>)},
     user_flags : {<<Word(0, <<0>>), Word(0, <<1>>)>>, <<Word(65535, <<65535>>), Word(0, <<0>>)>>},
     cache_version : {Word(7, <<>>), Word(65535, <<>>)}]

IntsValues ==
    [a : {Word(-128, <<>>), Word(-1, <<>>), Word(127, <<>>)},
     b : {Word(-32768, <<>>), Word(255, <<>>)},
     c : {Word(-32768, <<0>>), Word(-1, <<65535>>), Word(32767, <<65535>>)},
     d : {Word(-32768, <<0, 0, 0>>), Word(0, <<0, 0, 1>>), Word(32767, <<65535, 65535, 65535>>)},
     e : {Word(0, <<>>), Word(255, <<>>)},
     f : {Word(0, <<0, 0, 0>>), Word(65535, <<65535, 65535, 65535>>)}]

RecValues(S) == IF S = "ints" THEN IntsValues ELSE IrValues

\* struct index_record rr = {0}
ZeroIr == [uid |-> Word(0, <<0>>), internaldate |-> Timespec(0, 0, 0), subject |-> NullStr,
           cache_offset |-> 0, system_flags |-> Word(0, <<0>>),
           user_flags |-> <<Word(0, <<0>>), Word(0, <<0>>)>>, cache_version |-> Word(0, <<>>)]

\* a record whose fields all differ from zero and from the values encoded
FullIr == [uid |-> Word(1, <<1>>), internaldate |-> Timespec(0, 1, 1), subject |-> Str(<<120>>),
           cache_offset |-> 1, system_flags |-> Word(65535, <<65535>>),
           user_flags |-> <<Word(65535, <<65535>>), Word(65535, <<65535>>)>>,
           cache_version |-> Word(1, <<>>)]

ZeroInts == [a |-> Word(0, <<>>), b |-> Word(0, <<>>), c |-> Word(0, <<0>>),
             d |-> Word(0, <<0, 0, 0>>), e |-> Word(0, <<>>), f |-> Word(0, <<0, 0, 0>>)]

\* the records a caller decodes into
Targets(S) == IF S = "ints" THEN {ZeroInts} ELSE {ZeroIr, FullIr}

InitCodec ==
    /\ tables = <<>>
    /\ txns = [t \in TxnIds |-> "none"]
    /\ key_buf = KeyBufInit
    /\ cur = NoCursor
    /\ iter = NoIter
    /\ \E S \in CodecSchemas : \E v \in RecValues(S), rr \in Targets(S) :
          last = [op |-> "record", schema |-> S, v |-> v, need |-> 0, bytes |-> <<>>,
                  target |-> rr, out |-> rr, used |-> 0]

\* size_t need = serialise_<S>_size(&r)
CodecSize ==
    /\ last.op = "record"
    /\ last' = [last EXCEPT !.op = "sized", !.need = serialise_S_size(Items(last.schema), last.v)]
    /\ UNCHANGED << tables, txns, key_buf, cur, iter >>

\* char *end = serialise_<S>(buf, &r)
CodecEncode ==
    /\ last.op = "sized"
    /\ last' = [last EXCEPT !.op = "encoded", !.bytes = serialise_S(Items(last.schema), last.v)]
    /\ UNCHANGED << tables, txns, key_buf, cur, iter >>

\* deserialise_<S>(buf, &rr)
CodecDecode ==
    /\ last.op = "encoded"
    /\ \E d \in { deserialise_S(Items(last.schema), last.bytes, last.target) } :
          last' = [last EXCEPT !.op = "decoded", !.out = d.r, !.used = d.used]
    /\ UNCHANGED << tables, txns, key_buf, cur, iter >>

NextCodec == CodecSize \/ CodecEncode \/ CodecDecode

SpecCodec == InitCodec /\ [][NextCodec]_vars

(* ---------------- C21: size, encode and decode agree on the byte count ---------------- *)
\* C21: for every schema and record, serialise_<S> writes exactly the number of
\* bytes serialise_<S>_size returned, and deserialise_<S> on those bytes
\* consumes exactly that number.
Thm_C21 ==
    /\ last.op \in {"encoded", "decoded"} => Len(last.bytes) = last.need
    /\ last.op = "decoded" => last.used = last.need

\* a full index record with a two-character subject, decoded
Wit_C21 ==
    /\ last.op = "decoded" /\ last.schema = "ir"
    /\ last.v.subject = Str(<<72, 105>>)
    /\ last.need = 4 + 8 + 6 + 8 + 4 + 8 + 2
    /\ last.used = last.need

(* ---------------- C22: round trip of a record ---------------- *)
ItemNames(S) == { Items(S)[i].name : i \in 1..Len(Items(S)) }

\* every timespec field of the record is in the range the encoding holds (the
\* integers of the model are in the range of their type by construction)
Legal(S, v) ==
    \A i \in 1..Len(Items(S)) :
        Items(S)[i].tag = "timespec" => InTimeRange(v[Items(S)[i].name])

Decoded == last.op = "decoded"

\* C22 (as claimed): decoding the encoding of a legal record yields a record
\* equal to it in every field of the schema.
Claim_C22 ==
    (Decoded /\ Legal(last.schema, last.v)) =>
        \A n \in ItemNames(last.schema) : last.out[n] = last.v[n]

\* what does hold: the same for the records that have no NULL string
RoundTripWithoutNull ==
    ( /\ Decoded /\ Legal(last.schema, last.v)
      /\ \A i \in 1..Len(Items(last.schema)) :
            Items(last.schema)[i].tag = "charptr" => ~last.v[Items(last.schema)[i].name].null )
    => \A n \in ItemNames(last.schema) : last.out[n] = last.v[n]

(* ---------------- C23: nullness of a charptr across the round trip ---------------- *)
\* C23 (as claimed): a NULL string decodes as NULL, and a string that is not
\* NULL decodes as a string that is not NULL with the same bytes.
Claim_C23 ==
    (Decoded /\ last.schema = "ir") =>
        /\ last.out.subject.null <=> last.v.subject.null
        /\ last.out.subject.chars = last.v.subject.chars

(* ---------------- C24: decoding with a schema of some of the fields ---------------- *)
\* C24: decoding with a schema that lists only some fields of the record type
\* stores the encoded values in the listed fields and leaves every other field
\* of the target record as it was.
Thm_C24 ==
    (Decoded /\ last.schema = "flags") =>
        /\ \A n \in ItemNames("flags") : last.out[n] = last.v[n]
        /\ \A n \in DOMAIN last.target \ ItemNames("flags") : last.out[n] = last.target[n]

\* the flags decoded into a record whose other fields are not zero
Wit_C24 ==
    /\ Decoded /\ last.schema = "flags"
    /\ last.target = FullIr
    /\ last.out.uid = FullIr.uid /\ last.out.subject = FullIr.subject
    /\ last.out.user_flags = last.v.user_flags
    /\ last.out.user_flags # FullIr.user_flags

(* ---------------- C25: the snapshot bundle read back by the put path ---------------- *)
\* the get made last returned OK and was given the key buffer
GetCaptured == last.op = "get" /\ last.rc = KVSTORE_OK /\ last.snap

\* the records whose encoding is the value stored under the key of that get
StoredRecs ==
    { r \in Records :
        kvstore_txn_get("rw", tables, PkTable, Serialise(PkSchema, last.pk))
            = [rc |-> KVSTORE_OK, val |-> Serialise(RecSchema, r)] }

\* C25: after a get with a key buffer, the put path parses from the buffer the
\* serialised primary key of the stored record and its serialised secondary
\* keys in index order, each with its exact length, also when the buffer is
\* longer than the bundle and ends in bytes of an earlier bundle.
Thm_C25 ==
    GetCaptured =>
        /\ StoredRecs # {}
        /\ \A r \in StoredRecs :
              /\ UnLE(SubSeq(key_buf.bytes, 1, 4)) = Len(PkBytes(r))
              /\ OldPk(key_buf.bytes) = PkBytes(r)
              /\ \A i \in 1..Len(Indices) :
                    OldSks(key_buf.bytes)[i]
                        = [len |-> Len(SkBytes(Indices[i], r)), buf |-> SkBytes(Indices[i], r)]

\* the buffer is longer than the bundle just written and differs from it
Wit_C25 ==
    /\ GetCaptured
    /\ key_buf.size > Len(Bundle(last.rec))
    /\ Len(key_buf.bytes) = key_buf.size
    /\ key_buf.bytes # Bundle(last.rec)

(* ---------------- C26: the key buffer only grows ---------------- *)
GetStep ==
    last'.op = "get" =>
        /\ key_buf'.size >= key_buf.size
        /\ (last'.rc = KVSTORE_OK /\ last'.snap) =>
              /\ key_buf'.size >= Len(Bundle(last'.rec))
              /\ Len(key_buf'.bytes) = key_buf'.size

\* C26: a kvstore_get_<rec> never makes the recorded size of the key buffer it
\* is given smaller, and after it the size is at least the length of the
\* bundle it wrote.
Thm_C26 == [][GetStep]_vars

\* a buffer that once held the longest bundle now holds a shorter one
Wit_C26 ==
    /\ GetCaptured
    /\ last.rec.sender.chars = <<>>
    /\ key_buf.size = Len(Bundle(last.rec)) + MaxStrLen

(* ---------------- C27: a put without a snapshot deletes nothing ---------------- *)
PutNoSnapshot == last'.op = "put" /\ last'.rc = KVSTORE_OK /\ ~last'.snap

\* the indices in which the stored version v has another key than rec, and an
\* entry under that key that maps to its primary key
OldEntries(db, v, rec) ==
    { idx \in IndexSet :
        /\ SkBytes(idx, v) # SkBytes(idx, rec)
        /\ LookupIn(db, idx, extract_sk(idx, v)) = [rc |-> KVSTORE_OK, pk |-> extract_pk(v)] }

\* the stored versions of rec's primary key that have such an entry
Overwritten(db, rec) ==
    { v \in LiveRecs(db) : PkBytes(v) = PkBytes(rec) /\ OldEntries(db, v, rec) # {} }

\* the old entries of the stored version are found after the put as before
OldEntriesKept(v) ==
    \A idx \in OldEntries(tables, v, last'.rec) :
        LookupIn(tables', idx, extract_sk(idx, v)) = [rc |-> KVSTORE_OK, pk |-> extract_pk(v)]

\* C27 (as claimed): when a record is put without a snapshot over a stored
\* version with the same primary key and a different secondary key, the lookup
\* of the old secondary key returns what it returned before, and get of the
\* primary key returns the record put.
Claim_C27 ==
    [][ PutNoSnapshot => \A v \in Overwritten(tables, last'.rec) :
            /\ OldEntriesKept(v)
            /\ GetIn(tables', extract_pk(v)).rc = KVSTORE_OK
            /\ GetIn(tables', extract_pk(v)).result = last'.rec ]_vars

\* what does hold: the old entries are kept and the primary entry holds the
\* bytes of the record put
PutKeepsOldEntries ==
    [][ PutNoSnapshot => \A v \in Overwritten(tables, last'.rec) :
            /\ OldEntriesKept(v)
            /\ kvstore_txn_get("rw", tables', PkTable, PkBytes(v))
                  = [rc |-> KVSTORE_OK, val |-> Serialise(RecSchema, last'.rec)] ]_vars

(* ---------------- C28: a put that changes the primary key ---------------- *)
\* the step is a put of a record whose primary key differs from that of the
\* snapshot, and the snapshot is that of the record stored under its key
PkChangeStep ==
    /\ last'.op = "put" /\ last'.rc = KVSTORE_OK /\ last'.snap
    /\ FreshSnapshot
    /\ OldPk(key_buf.bytes) # PkBytes(last'.rec)

\* the old primary key is gone and every index maps the record's key to its
\* primary key
MovedTo(db, old_pk, rec) ==
    /\ kvstore_txn_get("rw", db, PkTable, old_pk).rc = KVSTORE_NOTFOUND
    /\ \A idx \in IndexSet :
          LookupIn(db, idx, extract_sk(idx, rec)) = [rc |-> KVSTORE_OK, pk |-> extract_pk(rec)]

\* C28 (as claimed): after a put with the snapshot of a stored record and
\* another primary key, get of the old primary key returns NotFound, get of the
\* new primary key returns the record put, and the lookup of every secondary
\* key of the record put returns the new primary key.
Claim_C28 ==
    [][ PkChangeStep =>
            /\ MovedTo(tables', OldPk(key_buf.bytes), last'.rec)
            /\ GetIn(tables', extract_pk(last'.rec)).rc = KVSTORE_OK
            /\ GetIn(tables', extract_pk(last'.rec)).result = last'.rec ]_vars

\* what does hold: the same with the new primary entry holding the bytes of
\* the record put
PkChangeMoves ==
    [][ PkChangeStep =>
            /\ MovedTo(tables', OldPk(key_buf.bytes), last'.rec)
            /\ kvstore_txn_get("rw", tables', PkTable, PkBytes(last'.rec))
                  = [rc |-> KVSTORE_OK, val |-> Serialise(RecSchema, last'.rec)] ]_vars

(* ---------------- the indexed put, call by call ---------------- *)

\* kvstore_put_<rec>_with_all_indices(txn, rec, &key_buf) by a caller who
\* always passes the key buffer (empty until a get has filled it), with the
\* sub-operations it issued and the tables after each of them on record
PutStepped(h, rec) ==
    \E r \in { kvstore_put_with_all_indices(h, tables, rec, Keys(key_buf)) } :
        /\ tables' = r.db
        /\ last' = [NoCall EXCEPT !.op = "put", !.rc = r.rc, !.t = h, !.rec = rec,
                                  !.snap = TRUE, !.same = (r.db = tables),
                                  !.log = r.log]
        /\ UNCHANGED << txns, key_buf, cur, iter >>

NextSteps ==
    \/ \E t \in TxnIds : TxnBegin(t, FALSE)
    \/ \E t \in TxnIds : TxnCommit(t)
    \/ \E h \in Handles, pk \in Pks : Get(h, pk, TRUE)
    \/ \E h \in TxnArgs, rec \in Records : PutStepped(h, rec)

SpecSteps == Init /\ [][NextSteps]_vars

(* ---------------- C29: the deletes of a put with a snapshot ---------------- *)
\* the step is a put that was given a snapshot bundle
SnapshotPutStep == last'.op = "put" /\ last'.snap /\ ~key_buf.null

\* the serialized key differs from the snapshot's in length or bytes
KeyDiffers(old, new_sk) == old.len # Len(new_sk) \/ old.buf # new_sk

DeleteIssued(log, table) == \E j \in 1..Len(log) : log[j].op = "del" /\ log[j].table = table

PutIssued(log, table) == \E j \in 1..Len(log) : log[j].op = "put" /\ log[j].table = table

Present(db, table, key) == kvstore_txn_get("rw", db, table, key).rc = KVSTORE_OK

\* whether the entry is there before the first call of the log and after each
\* of its calls
PresentAt(db, log, table, key) ==
    << Present(db, table, key) >> \o [j \in 1..Len(log) |-> Present(log[j].db, table, key)]

\* C29: in a put with a snapshot, no delete is issued on the table of an index
\* whose serialized key is that of the snapshot, and the entry under that key,
\* once there, is there after every backend call of the put; a put that
\* got as far as writing an index whose key differs has issued a delete on the
\* table of that index, and that delete is of the snapshot's key.
Thm_C29 ==
    [][ SnapshotPutStep => \A i \in 1..Len(Indices) :
          \A old \in { OldSks(key_buf.bytes)[i] } :
          \A new_sk \in { SkBytes(Indices[i], last'.rec) } :
             IF KeyDiffers(old, new_sk)
             THEN PutIssued(last'.log, SkTable(Indices[i])) =>
                    /\ DeleteIssued(last'.log, SkTable(Indices[i]))
                    /\ \A j \in 1..Len(last'.log) :
                          (last'.log[j].op = "del" /\ last'.log[j].table = SkTable(Indices[i]))
                              => last'.log[j].key = old.buf
             ELSE /\ ~DeleteIssued(last'.log, SkTable(Indices[i]))
                  /\ \A P \in { PresentAt(tables, last'.log, SkTable(Indices[i]), new_sk) } :
                        \A j \in 1..(Len(P) - 1) : P[j] => P[j + 1] ]_vars

\* a put that changed the key of the first index and kept that of the second,
\* whose entry was there before the put and after each of its calls
Wit_C29 ==
    /\ PutWithSnapshot
    /\ Len(last.log) = 4
    /\ last.log[2].op = "del" /\ last.log[2].table = SkTable(Indices[1])
    /\ OldSks(key_buf.bytes)[2].buf = SkBytes(Indices[2], last.rec)
    /\ \A j \in 1..Len(last.log) :
          Present(last.log[j].db, SkTable(Indices[2]), SkBytes(Indices[2], last.rec))

(* ---------------- C30: the order of the backend calls of a put ---------------- *)
PrimaryWrite(e) == e.op = "put" /\ e.table = PkTable
SecondaryWrite(e) == e.op = "put" /\ e.table # PkTable

\* C30 (as claimed): in a put with a snapshot every delete is issued before
\* the write of the primary table, and that write is issued before every write
\* of a secondary table.
Claim_C30 ==
    PutWithSnapshot =>
        \A j, k \in 1..Len(last.log) :
            /\ (last.log[j].op = "del" /\ PrimaryWrite(last.log[k])) => j < k
            /\ (PrimaryWrite(last.log[j]) /\ SecondaryWrite(last.log[k])) => j < k

\* C30 (amended): in a put with a snapshot the delete of the old primary key
\* is issued before the write of the primary table, that write before every
\* call on a secondary table, and the delete of a stale secondary key directly
\* before the write of its index.
Thm_C30 ==
    PutWithSnapshot =>
        \A j, k \in 1..Len(last.log) :
            /\ (last.log[j].op = "del" /\ last.log[j].table = PkTable
                  /\ PrimaryWrite(last.log[k])) => j < k
            /\ (PrimaryWrite(last.log[j]) /\ last.log[k].table # PkTable) => j < k
            /\ (last.log[j].op = "del" /\ last.log[j].table # PkTable) =>
                  /\ j < Len(last.log)
                  /\ last.log[j + 1].op = "put"
                  /\ last.log[j + 1].table = last.log[j].table

\* a put that changed the primary key and the key of the first index: the
\* delete of the secondary key is issued after the primary write
Wit_C30 ==
    /\ PutWithSnapshot
    /\ Len(last.log) >= 5
    /\ last.log[1].op = "del" /\ last.log[1].table = PkTable
    /\ PrimaryWrite(last.log[2])
    /\ last.log[3].op = "del" /\ last.log[3].table = SkTable(Indices[1])
    /\ SecondaryWrite(last.log[4])

(* ---------------- two transaction pointers on one database ---------------- *)

\* The caller holds two kvstore_txn_t* variables. Each is "null" (NULL, as at
\* the start and as kvstore_txn_begin returns when it fails), "rw" or "ro" (a
\* live transaction), "freed" (kvstore_txn_commit or kvstore_txn_abort has
\* freed the block it points to, kvstore.c:59 and :68) or "reused" (that block
\* was handed out again by the calloc of kvstore.c:41 and now holds the
\* transaction of the other variable).
TxnSlots == {1, 2}
OtherSlot(x) == 3 - x

\* the pointers a call can be given: the two variables and a literal NULL
TxnPtrs == TxnSlots \cup {0}

\* what a call finds behind the pointer x. A freed block that was not handed
\* out again reads as mem_txn_commit left it, backend_txn = NULL
\* (kvstore_mem.c:176, :189); a reused block is the other transaction.
SeenAs(x) ==
    IF x = 0 \/ txns[x] = "null" THEN "null"
    ELSE IF txns[x] = "freed" THEN "none"
    ELSE IF txns[x] = "reused" THEN txns[OtherSlot(x)]
    ELSE txns[x]

TxKeys == { <<97>>, <<98>> }
TxVals == { <<1>>, <<2>> }

TxCall(op, x, rc, key, val) ==
    [op |-> op, x |-> x, h |-> SeenAs(x), rc |-> rc, key |-> key, val |-> val]

InitTxn ==
    /\ tables = <<>>
    /\ txns = [x \in TxnSlots |-> "null"]
    /\ key_buf = KeyBufInit
    /\ cur = NoCursor
    /\ iter = [owner |-> 0]
    /\ last = TxCall("none", 0, KVSTORE_OK, <<>>, <<>>)

\* x = kvstore_txn_begin(db, read_only); the calloc may hand out the block
\* that the other variable still points to after its transaction was freed
TxBegin(x, read_only, reuse) ==
    /\ ~TxnLive(txns[x])
    /\ reuse => txns[OtherSlot(x)] = "freed"
    /\ txns' = [y \in TxnSlots |->
                   IF y = x THEN (IF read_only THEN "ro" ELSE "rw")
                   ELSE IF reuse THEN "reused" ELSE txns[y]]
    /\ last' = TxCall("begin", x, KVSTORE_OK, <<>>, <<>>)
    /\ UNCHANGED << tables, key_buf, cur, iter >>

\* kvstore_txn_commit(x) or kvstore_txn_abort(x) on a live transaction: the
\* data stays, the block is freed, a cursor of the transaction dangles
TxEnd(x, op) ==
    /\ TxnLive(txns[x])
    /\ txns' = [y \in TxnSlots |->
                   IF y = x \/ txns[y] = "reused" THEN "freed" ELSE txns[y]]
    /\ cur' = IF iter.owner = x THEN Dangle(cur) ELSE cur
    /\ last' = TxCall(op, x, KVSTORE_OK, <<>>, <<>>)
    /\ UNCHANGED << tables, key_buf, iter >>

\* fault: a put refused while the other transaction is live
TxPutLocked(x, key, val) ==
    \E r \in { IF x # 0 /\ TxnLive(txns[OtherSlot(x)]) THEN [rc |-> KVSTORE_ERROR, db |-> tables]
               ELSE kvstore_txn_put(SeenAs(x), tables, RawTable, key, val) } :
        /\ tables' = r.db
        /\ last' = TxCall("kv_put", x, r.rc, key, val)
        /\ UNCHANGED << txns, key_buf, cur, iter >>

\* kvstore_txn_put(x, "t", key, val)
TxPut(x, key, val) ==
    \E r \in { kvstore_txn_put(SeenAs(x), tables, RawTable, key, val) } :
        /\ tables' = r.db
        /\ last' = TxCall("kv_put", x, r.rc, key, val)
        /\ UNCHANGED << txns, key_buf, cur, iter >>

\* kvstore_txn_del(x, "t", key)
TxDel(x, key) ==
    \E r \in { kvstore_txn_del(SeenAs(x), tables, RawTable, key) } :
        /\ tables' = r.db
        /\ last' = TxCall("kv_del", x, r.rc, key, <<>>)
        /\ UNCHANGED << txns, key_buf, cur, iter >>

\* kvstore_txn_get(x, "t", key, &val)
TxGet(x, key) ==
    \E r \in { kvstore_txn_get(SeenAs(x), tables, RawTable, key) } :
        /\ last' = TxCall("kv_get", x, r.rc, key, r.val)
        /\ UNCHANGED << tables, txns, key_buf, cur, iter >>

\* cur = kvstore_cursor_open(x, "t", NULL) into the caller's NULL cursor pointer
TxCursorOpen(x) ==
    /\ cur.state = "closed"
    /\ \E r \in { kvstore_cursor_open(SeenAs(x), tables, RawTable, NoStart) } :
          /\ cur' = r.cur
          /\ iter' = [owner |-> IF r.rc = KVSTORE_OK THEN x ELSE 0]
          /\ last' = TxCall("cursor_open", x, r.rc, <<>>, <<>>)
    /\ UNCHANGED << tables, txns, key_buf >>

\* kvstore_cursor_get(cur, &key, &val) on the open cursor
TxCursorGet ==
    /\ cur.state = "open"
    /\ \E r \in { kvstore_cursor_get(cur, tables) } :
          last' = TxCall("cursor_get", iter.owner, r.rc, r.key, r.val)
    /\ UNCHANGED << tables, txns, key_buf, cur, iter >>

\* kvstore_cursor_close(cur)
TxCursorClose ==
    /\ cur.state # "closed"
    /\ cur' = NoCursor
    /\ iter' = [owner |-> 0]
    /\ last' = TxCall("cursor_close", 0, KVSTORE_OK, <<>>, <<>>)
    /\ UNCHANGED << tables, txns, key_buf >>

NextTxn ==
    \/ \E x \in TxnSlots, read_only, reuse \in BOOLEAN : TxBegin(x, read_only, reuse)
    \/ \E x \in TxnSlots, op \in {"commit", "abort"} : TxEnd(x, op)
    \/ \E x \in TxnPtrs, key \in TxKeys, val \in TxVals : TxPut(x, key, val)
    \/ \E x \in TxnPtrs, key \in TxKeys : TxDel(x, key)
    \/ \E x \in TxnPtrs, key \in TxKeys : TxGet(x, key)
    \/ \E x \in TxnPtrs : TxCursorOpen(x)
    \/ TxCursorGet
    \/ TxCursorClose

SpecTxn == InitTxn /\ [][NextTxn]_vars

(* ---------------- C31: no isolation between transactions ---------------- *)
\* the step is a put or del that returned OK, made through the live
\* transaction x while the transaction y of the other variable is live
WriteBeside(x, y) ==
    /\ last'.op \in {"kv_put", "kv_del"} /\ last'.rc = KVSTORE_OK /\ last'.x = x
    /\ y = OtherSlot(x)
    /\ TxnLive(txns[x]) /\ TxnLive(txns[y])

\* the keys stored in the raw table
KeysIn(db) == { k \in TxKeys : AbsVals(db, RawTable, k) # {} }

\* the keys and the value of key k that the write of the step leaves
KeysLeft == IF last'.op = "kv_put" THEN KeysIn(tables) \cup {last'.key}
            ELSE KeysIn(tables) \ {last'.key}
ValLeft(k) == IF last'.op = "kv_put" /\ k = last'.key THEN {last'.val}
              ELSE AbsVals(tables, RawTable, k)

\* the key of K with i keys of K before it
RankKey(K, i) == CHOOSE k \in K : Cardinality({ j \in K : compare_keys(j, k) < 0 }) = i

\* the step is a put through the live transaction x while the other is live
PutBeside(x) ==
    /\ last'.op = "kv_put" /\ last'.x = x
    /\ TxnLive(txns[x]) /\ TxnLive(txns[OtherSlot(x)])

\* C31: a put made through one of two open transactions returns OK, and a put
\* or del made through one of them is seen at once by the other: its get
\* returns the value put, or NotFound for the key deleted, and its cursor, when
\* positioned on an entry, returns the entry that the write leaves at its
\* position.
Thm_C31 ==
    [][ \A x \in TxnSlots : \A y \in TxnSlots :
          /\ PutBeside(x) => last'.rc = KVSTORE_OK
          /\ WriteBeside(x, y) =>
                /\ \A k \in TxKeys :
                      kvstore_txn_get(txns[y], tables', RawTable, k)
                         = IF k \in KeysLeft
                           THEN [rc |-> KVSTORE_OK, val |-> CHOOSE v \in ValLeft(k) : TRUE]
                           ELSE [rc |-> KVSTORE_NOTFOUND, val |-> <<>>]
                /\ (cur.state = "open" /\ iter.owner = y /\ cur.valid) =>
                      kvstore_cursor_get(cur, tables')
                         = IF cur.index < Cardinality(KeysLeft)
                           THEN [rc |-> KVSTORE_OK, key |-> RankKey(KeysLeft, cur.index),
                                 val |-> CHOOSE v \in ValLeft(RankKey(KeysLeft, cur.index)) : TRUE]
                           ELSE [rc |-> KVSTORE_NOTFOUND, key |-> <<>>, val |-> <<>>] ]_vars

\* the transaction of one variable has put a key, and the cursor of the other
\* transaction, opened before the put, is on that key
Wit_C31 ==
    /\ last.op = "kv_put" /\ last.rc = KVSTORE_OK /\ last.x \in TxnSlots
    /\ TxnLive(txns[1]) /\ TxnLive(txns[2])
    /\ cur.state = "open" /\ cur.valid /\ iter.owner = OtherSlot(last.x)
    /\ Len(TablePairs(tables, RawTable)) = 2
    /\ kvstore_cursor_get(cur, tables) = [rc |-> KVSTORE_OK, key |-> last.key, val |-> last.val]

(* ---------------- C32: calls outside a live transaction ---------------- *)
\* the step is a put, get, del or cursor_open given the pointer x
CallThrough(x) ==
    last'.op \in {"kv_put", "kv_get", "kv_del", "cursor_open"} /\ last'.x = x

\* the call returned the error status and had no effect
Rejected ==
    /\ last'.rc = KVSTORE_ERROR
    /\ tables' = tables
    /\ last'.op = "cursor_open" => cur'.state = "closed"

\* C32 (as claimed): a put, get, del or cursor_open that is given a NULL
\* transaction, or a transaction that was committed or aborted, returns the
\* error status (no cursor for cursor_open) and leaves every table unchanged.
Claim_C32 ==
    [][ \A x \in TxnPtrs :
          (CallThrough(x) /\ (x = 0 \/ ~TxnLive(txns[x]))) => Rejected ]_vars

\* what does hold: the same for a NULL transaction and for a transaction that
\* was committed or aborted and whose block was not handed out again
RejectedUnlessReused ==
    [][ \A x \in TxnPtrs :
          (CallThrough(x) /\ (x = 0 \/ txns[x] \in {"null", "freed"})) => Rejected ]_vars

(* ---------------- C37: a read-only transaction ---------------- *)
\* C37 (as claimed): a put or del made through a transaction begun with
\* read_only = true fails and leaves every table unchanged.
Claim_C37 ==
    [][ \A x \in TxnSlots :
          (last'.op \in {"kv_put", "kv_del"} /\ last'.x = x /\ txns[x] = "ro")
              => (last'.rc # KVSTORE_OK /\ tables' = tables) ]_vars

(* ---------------- C33: timespec truncation ---------------- *)
\* the sign-extended low 34 bits of tv_sec: of sec_hi * 2^18 + sec_lo, the low
\* 16 bits of sec_hi read as a signed number, above sec_lo
SignExtend34(v) == ((v.sec_hi + 32768) % 65536) - 32768

\* the timespec a round trip of v gives
Truncated(v) == Timespec(SignExtend34(v), v.sec_lo, v.nsec % 1073741824)

\* C33: a timespec always encodes to 8 bytes, and decoding them gives the
\* seconds as the sign-extended low 34 bits of tv_sec and the nanoseconds as the
\* low 30 bits of tv_nsec; for seconds in [-2^33, 2^33) and nanoseconds in
\* [0, 2^30) that is the timespec that was encoded.
Thm_C33 ==
    TimeEncoded =>
        /\ Len(last.ea) = 8
        /\ TYPE_DEC_timespec(last.ea) = [val |-> Truncated(last.a), used |-> 8]
        /\ InTimeRange(last.a) => TYPE_DEC_timespec(last.ea).val = last.a
        /\ ~InTimeRange(last.a) => TYPE_DEC_timespec(last.ea).val # last.a

\* 2^33 seconds wrap to -2^33, 2^30 nanoseconds to 0
Wit_C33 ==
    /\ TimeEncoded
    /\ last.a = Timespec(32768, 1, 1073741824)
    /\ TYPE_DEC_timespec(last.ea).val = Timespec(-32768, 1, 0)

(* ---------------- the array of sub-parts of a MIME part, mime_serialise.h:127-155, 231-246 ---------------- *)

\* longest array of sub-parts, and the depth of nesting below the part encoded
MaxParts == 2

\* struct mime_part **parts: NULL, or an array of pointers to parts
NullParts == [null |-> TRUE, elems |-> <<>>]
PartsAt(elems) == [null |-> FALSE, elems |-> elems]

\* struct mime_part, of which the model keeps the fields content_id, num_parts
\* and parts, and SERIALISE(mime_part, ...) the items of those fields
mime_part(id, n, parts) == [content_id |-> id, num_parts |-> n, parts |-> parts]

RECURSIVE serialise_mime_part_size(_)
RECURSIVE serialise_mime_part(_)
RECURSIVE deserialise_mime_part(_, _)

RECURSIVE ITEM_SIZE_MIME_PART_PTR(_, _, _)
\* the loop of ITEM_SIZE_MIME_PART_PTR from __i = i on
ITEM_SIZE_MIME_PART_PTR(parts, i, count) ==
    IF i >= count THEN 0
    ELSE serialise_mime_part_size(parts.elems[i + 1])
         + ITEM_SIZE_MIME_PART_PTR(parts, i + 1, count)

RECURSIVE ITEM_ENC_MIME_PART_PTR_reversed(_, _, _)
\* fault: the sub-parts written last to first
ITEM_ENC_MIME_PART_PTR_reversed(parts, i, count) ==
    IF i >= count THEN <<>>
    ELSE ITEM_ENC_MIME_PART_PTR_reversed(parts, i + 1, count)
         \o serialise_mime_part(parts.elems[i + 1])

RECURSIVE ITEM_ENC_MIME_PART_PTR(_, _, _)
\* the loop of ITEM_ENC_MIME_PART_PTR from __i = i on: the bytes written
ITEM_ENC_MIME_PART_PTR(parts, i, count) ==
    IF i >= count THEN <<>>
    ELSE serialise_mime_part(parts.elems[i + 1])
         \o ITEM_ENC_MIME_PART_PTR(parts, i + 1, count)

\* what deserialise_mime_part finds in a part that SERIAL_ALLOC has just
\* returned; it stores every field the model keeps and reads none
FreshPart == mime_part(NullStr, 0, NullParts)

RECURSIVE DecParts(_, _, _)
\* the loop of ITEM_DEC_MIME_PART_PTR from __i = i on: the parts decoded and
\* the bytes consumed
DecParts(buf, i, count) ==
    IF i >= count THEN [elems |-> <<>>, used |-> 0]
    ELSE LET d == deserialise_mime_part(buf, FreshPart)
             rest == DecParts(SubSeq(buf, d.used + 1, Len(buf)), i + 1, count)
         IN  [elems |-> <<d.r>> \o rest.elems, used |-> d.used + rest.used]

\* ITEM_DEC_MIME_PART_PTR: with a count above zero an array is allocated and
\* filled, otherwise r->parts = NULL
ITEM_DEC_MIME_PART_PTR(buf, count) ==
    IF count > 0
    THEN LET d == DecParts(buf, 0, count)
         IN  [val |-> PartsAt(d.elems), used |-> d.used]
    ELSE [val |-> NullParts, used |-> 0]

\* serialise_mime_part_size(r)
serialise_mime_part_size(r) ==
    TYPE_SIZEOF("charptr", r.content_id) + TYPE_SIZEOF("u64", r.num_parts)
    + ITEM_SIZE_MIME_PART_PTR(r.parts, 0, r.num_parts)

\* serialise_mime_part(buf, r): the bytes written
serialise_mime_part(r) ==
    TYPE_ENC("charptr", r.content_id) \o TYPE_ENC("u64", r.num_parts)
    \o ITEM_ENC_MIME_PART_PTR(r.parts, 0, r.num_parts)

\* deserialise_mime_part(buf, r): the part after the call and the bytes consumed
deserialise_mime_part(buf, r) ==
    LET id == TYPE_DEC("charptr", buf)
        n == TYPE_DEC("u64", SubSeq(buf, id.used + 1, Len(buf)))
        ps == ITEM_DEC_MIME_PART_PTR(SubSeq(buf, id.used + n.used + 1, Len(buf)), n.val)
    IN  [r |-> [r EXCEPT !.content_id = id.val, !.num_parts = n.val, !.parts = ps.val],
         used |-> id.used + n.used + ps.used]

RECURSIVE PartSeqs(_, _)
\* the arrays of 1 to n parts taken from P
PartSeqs(P, n) ==
    IF n = 0 THEN {}
    ELSE { <<p>> : p \in P } \cup PartSeqs(P, n - 1)
         \cup { Append(s, p) : s \in PartSeqs(P, n - 1), p \in P }

\* parts without sub-parts: no Content-ID, an empty one, and "a"
LeafParts == { mime_part(id, 0, NullParts) : id \in {NullStr, Str(<<>>), Str(<<97>>)} }

\* multipart parts of leaves
InnerParts ==
    { mime_part(Str(<<98>>), Len(s), PartsAt(s)) :
        s \in PartSeqs({ mime_part(Str(<<>>), 0, NullParts),
                         mime_part(Str(<<97>>), 0, NullParts) }, MaxParts) }

\* the parts encoded: a multipart part of leaves and of multipart parts, a part
\* without sub-parts, and one whose count is zero beside an array left allocated
PartValues ==
    { mime_part(Str(<<116>>), Len(s), PartsAt(s)) :
        s \in PartSeqs(LeafParts \cup InnerParts, MaxParts) }
    \cup { mime_part(Str(<<116>>), 0, NullParts),
           mime_part(Str(<<116>>), 0, PartsAt(<< mime_part(Str(<<97>>), 0, NullParts) >>)) }

\* the parts a caller decodes into: struct mime_part r = {0}, and one that
\* still holds a sub-part
PartTargets ==
    { FreshPart,
      mime_part(Str(<<120>>), 1, PartsAt(<< mime_part(Str(<<120>>), 0, NullParts) >>)) }

InitParts ==
    /\ tables = <<>>
    /\ txns = [t \in TxnIds |-> "none"]
    /\ key_buf = KeyBufInit
    /\ cur = NoCursor
    /\ iter = NoIter
    /\ \E v \in PartValues, rr \in PartTargets :
          last = [op |-> "part", v |-> v, need |-> 0, bytes |-> <<>>,
                  target |-> rr, out |-> rr, used |-> 0]

\* size_t need = serialise_mime_part_size(&part)
PartSize ==
    /\ last.op = "part"
    /\ last' = [last EXCEPT !.op = "sized", !.need = serialise_mime_part_size(last.v)]
    /\ UNCHANGED << tables, txns, key_buf, cur, iter >>

\* char *end = serialise_mime_part(buf, &part)
PartEncode ==
    /\ last.op = "sized"
    /\ last' = [last EXCEPT !.op = "encoded", !.bytes = serialise_mime_part(last.v)]
    /\ UNCHANGED << tables, txns, key_buf, cur, iter >>

\* deserialise_mime_part(buf, &rr)
PartDecode ==
    /\ last.op = "encoded"
    /\ \E d \in { deserialise_mime_part(last.bytes, last.target) } :
          last' = [last EXCEPT !.op = "decoded", !.out = d.r, !.used = d.used]
    /\ UNCHANGED << tables, txns, key_buf, cur, iter >>

NextParts == PartSize \/ PartEncode \/ PartDecode

SpecParts == InitParts /\ [][NextParts]_vars

(* ---------------- C34: an array of sub-parts, empty and not ---------------- *)
\* the bytes of the part before its array: the Content-ID and the count
PartHead(v) == TYPE_ENC("charptr", v.content_id) \o TYPE_ENC("u64", v.num_parts)

PartDecoded == last.op = "decoded"

\* C34 (as claimed): with a count of zero nothing is written for the array,
\* the decoder sets the array pointer to NULL and consumes nothing for it; with
\* a count n above zero the decoded array holds n parts equal to the n
\* encoded, in their order.
Claim_C34 ==
    PartDecoded =>
        /\ last.v.num_parts = 0 =>
              /\ last.bytes = PartHead(last.v)
              /\ last.out.parts = NullParts
              /\ last.used = Len(PartHead(last.v))
        /\ last.v.num_parts > 0 =>
              /\ ~last.out.parts.null
              /\ last.out.parts.elems = last.v.parts.elems

RECURSIVE AsDecoded(_)
\* a part as the decoder returns it: a string for every Content-ID, that of no
\* characters where there was none, and NULL for every array of count zero
AsDecoded(p) ==
    mime_part(Str(p.content_id.chars), p.num_parts,
              IF p.num_parts = 0 THEN NullParts
              ELSE PartsAt([i \in 1..p.num_parts |-> AsDecoded(p.parts.elems[i])]))

\* what does hold: the same, with each decoded part equal to the encoded one
\* up to the Content-IDs that were NULL, which come back as empty strings
ArrayRoundTrip ==
    PartDecoded =>
        /\ Len(last.bytes) = last.need /\ last.used = last.need
        /\ last.v.num_parts = 0 =>
              /\ last.bytes = PartHead(last.v)
              /\ last.out.parts = NullParts
              /\ last.used = Len(PartHead(last.v))
        /\ last.v.num_parts > 0 =>
              /\ ~last.out.parts.null
              /\ Len(last.out.parts.elems) = last.v.num_parts
              /\ \A i \in 1..last.v.num_parts :
                    last.out.parts.elems[i] = AsDecoded(last.v.parts.elems[i])

(* ---------------- read-modify-write with unique secondary keys ---------------- *)

\* records of three threads, so that two of them can be live without sharing a
\* key and one of the two can move to a thread that is free
UniqRecords == [mailbox_id : MailboxIds, uid : Uids, sender : Strings,
                thread_id : {2003, 2004, 2005}, flags : FlagVals]

\* no two live records have the same serialised key in any secondary index
UniqueSks(db) ==
    \A r1 \in LiveRecs(db), r2 \in LiveRecs(db) :
        r1 # r2 => \A idx \in IndexSet : SkBytes(idx, r1) # SkBytes(idx, r2)

\* the inserts and updates of the discipline that keep the keys unique
InsertUnique(h, rec) == InsertNew(h, rec) /\ UniqueSks(tables')
UpdateUnique(h, rec) == UpdateWithSnapshot(h, rec) /\ UniqueSks(tables')

NextUniq ==
    \/ \E t \in TxnIds : TxnBegin(t, FALSE)
    \/ \E t \in TxnIds : TxnCommit(t)
    \/ \E h \in Handles, rec \in UniqRecords : InsertUnique(h, rec)
    \/ \E h \in Handles, pk \in Pks : Get(h, pk, TRUE)
    \/ \E h \in Handles, rec \in UniqRecords : UpdateUnique(h, rec)

SpecUniq == Init /\ [][NextUniq]_vars

(* ---------------- C35: the secondary tables under unique keys ---------------- *)
\* the entries of a table, as a set
EntriesOf(db, table) ==
    { TablePairs(db, table)[i] : i \in 1..Len(TablePairs(db, table)) }

\* C35: under the read-modify-write discipline, and as long as no two live
\* records share a serialised key in any secondary index, after every
\* successful put with all indices each secondary table holds one entry per
\* live record, from the key extracted from the record to its primary key, and
\* nothing else.
Thm_C35 ==
    PutOK => \A idx \in IndexSet :
        /\ EntriesOf(tables, SkTable(idx))
              = { [key |-> SkBytes(idx, r), val |-> PkBytes(r)] : r \in LiveRecs(tables) }
        /\ Len(TablePairs(tables, SkTable(idx))) = Cardinality(LiveRecs(tables))

\* two live records, the put made last an update that moved one of them to
\* another thread
Wit_C35 ==
    /\ PutWithSnapshot
    /\ Cardinality(LiveRecs(tables)) = 2
    /\ OldPk(key_buf.bytes) = PkBytes(last.rec)
    /\ OldSks(key_buf.bytes)[2].buf # SkBytes(Indices[2], last.rec)

(* ---------------- a caller that reuses its output objects ---------------- *)

\* iter holds the caller's objects: the record that kvstore_get_<rec> fills and
\* the primary key that kvstore_lookup_<rec>_<index> fills, both = {0} at first
InitOut ==
    /\ tables = <<>>
    /\ txns = [t \in TxnIds |-> "none"]
    /\ key_buf = KeyBufInit
    /\ cur = NoCursor
    /\ iter = [result |-> ZeroRec, pk |-> ZeroPk]
    /\ last = NoCall

\* kvstore_get_<rec>(txn, key, &result, &key_buf) into the record and the key
\* buffer used by the gets before
GetInto(h, pk) ==
    \E r \in { kvstore_get_rec(h, tables, pk, iter.result, Keys(key_buf)) } :
        /\ key_buf' = r.kb
        /\ iter' = [iter EXCEPT !.result = r.result]
        /\ last' = [NoCall EXCEPT !.op = "get", !.rc = r.rc, !.t = h, !.pk = pk,
                                  !.snap = TRUE, !.rec = r.result]
        /\ UNCHANGED << tables, txns, cur >>

\* kvstore_lookup_<rec>_<index>(txn, sec_key, &pk) into the key used by the
\* lookups before
LookupInto(h, idx, sk) ==
    \E r \in { kvstore_lookup(h, tables, idx, sk, iter.pk) } :
        /\ iter' = [iter EXCEPT !.pk = r.pk]
        /\ last' = [NoCall EXCEPT !.op = "lookup", !.rc = r.rc, !.t = h, !.idx = idx,
                                  !.sk = Serialise(SkSchema(idx), sk), !.pk = r.pk]
        /\ UNCHANGED << tables, txns, key_buf, cur >>

NextOut ==
    \/ \E t \in TxnIds : TxnBegin(t, FALSE)
    \/ \E h \in Handles, rec \in Records : Put(h, rec, FALSE)
    \/ \E h \in Handles, pk \in Pks : Del(h, pk)
    \/ \E h \in Handles, pk \in Pks : GetInto(h, pk)
    \/ \E h \in Handles, idx \in IndexSet : \E sk \in SkKeys(idx) : LookupInto(h, idx, sk)

SpecOut == InitOut /\ [][NextOut]_vars

(* ---------------- C36: outputs of a get and a lookup that find nothing ---------------- *)
\* C36: a kvstore_get_<rec> that returns NotFound leaves the caller's record
\* and the caller's key buffer as they were, and a kvstore_lookup_<rec>_<index>
\* that returns NotFound leaves the caller's primary key as it was.
Thm_C36 ==
    [][ /\ (last'.op = "get" /\ last'.rc = KVSTORE_NOTFOUND)
              => (iter'.result = iter.result /\ key_buf' = key_buf)
        /\ (last'.op = "lookup" /\ last'.rc = KVSTORE_NOTFOUND)
              => iter'.pk = iter.pk ]_vars

\* a get that found nothing, after one that had read a record: the record and
\* its keys are still in the caller's objects
Wit_C36 ==
    /\ last.op = "get" /\ last.rc = KVSTORE_NOTFOUND
    /\ iter.result # ZeroRec
    /\ ~key_buf.null
    /\ IsPrefix(Bundle(iter.result), key_buf.bytes)
    /\ iter.pk # ZeroPk

(* ---------------- an iteration with writes to the table ---------------- *)

\* iter holds the history of the iteration: the keys cursor_get has returned,
\* whether the entry at the present position has been read, the keys stored
\* since the open without a break, whether a key was added or removed since the
\* open, and whether that happened at or before the position of the cursor
NoScan == [seen |-> <<>>, read |-> FALSE, kept |-> {}, wrote |-> FALSE, low |-> FALSE]

KeysOf(db, name) == { TablePairs(db, name)[i].key : i \in 1..Len(TablePairs(db, name)) }

\* the number of keys of the table below key: where key is, or would be put
PosOf(db, name, key) == Cardinality({ k \in KeysOf(db, name) : LexLess(k, key) })

InitScan ==
    /\ tables = <<>>
    /\ txns = [t \in TxnIds |-> "none"]
    /\ key_buf = KeyBufInit
    /\ cur = NoCursor
    /\ iter = NoScan
    /\ last = NoCall

\* a change of the keys of the table while the cursor is open on it
Shifted(db, key) ==
    IF cur.state = "open" /\ KeysOf(db, RawTable) # KeysOf(tables, RawTable)
    THEN [iter EXCEPT !.wrote = TRUE,
                      !.kept = @ \cap KeysOf(db, RawTable),
                      !.low = @ \/ PosOf(tables, RawTable, key) <= cur.index]
    ELSE iter

\* kvstore_txn_put on the table, while it has room for the key
ScanPut(h, key, val) ==
    /\ \/ kvstore_txn_get(h, tables, RawTable, key).rc = KVSTORE_OK
       \/ Len(TablePairs(tables, RawTable)) < MaxEntries + 1
    /\ \E r \in { kvstore_txn_put(h, tables, RawTable, key, val) } :
          /\ tables' = r.db
          /\ iter' = Shifted(r.db, key)
          /\ last' = [NoCall EXCEPT !.op = "kv_put", !.rc = r.rc, !.t = h,
                                    !.key = key, !.val = val]
    /\ UNCHANGED << txns, key_buf, cur >>

\* kvstore_txn_del on the table
ScanDel(h, key) ==
    /\ \E r \in { kvstore_txn_del(h, tables, RawTable, key) } :
          /\ tables' = r.db
          /\ iter' = Shifted(r.db, key)
          /\ last' = [NoCall EXCEPT !.op = "kv_del", !.rc = r.rc, !.t = h, !.key = key]
    /\ UNCHANGED << txns, key_buf, cur >>

\* kvstore_cursor_open(txn, table, NULL)
ScanOpen(h) ==
    /\ cur.state = "closed"
    /\ \E r \in { kvstore_cursor_open(h, tables, RawTable, NoStart) } :
          /\ cur' = r.cur
          /\ iter' = [NoScan EXCEPT !.kept = KeysOf(tables, RawTable)]
          /\ last' = [NoCall EXCEPT !.op = "cursor_open", !.rc = r.rc, !.t = h]
    /\ UNCHANGED << tables, txns, key_buf >>

\* while (kvstore_cursor_get(cur, &k, &v) == KVSTORE_OK) { ...
ScanGet ==
    /\ cur.state = "open" /\ ~iter.read
    /\ \E r \in { kvstore_cursor_get(cur, tables) } :
          /\ iter' = IF r.rc # KVSTORE_OK THEN iter
                     ELSE [iter EXCEPT !.read = TRUE, !.seen = Append(@, r.key)]
          /\ last' = [NoCall EXCEPT !.op = "cursor_get", !.rc = r.rc,
                                    !.key = r.key, !.val = r.val]
    /\ UNCHANGED << tables, txns, key_buf, cur >>

\* ... kvstore_cursor_next(cur); }
ScanNext ==
    /\ cur.state = "open" /\ iter.read
    /\ \E r \in { kvstore_cursor_next(cur, tables) } :
          /\ cur' = [cur EXCEPT !.index = r.index, !.valid = r.valid]
          /\ iter' = [iter EXCEPT !.read = FALSE]
          /\ last' = [NoCall EXCEPT !.op = "cursor_next", !.rc = r.rc]
    /\ UNCHANGED << tables, txns, key_buf >>

\* kvstore_cursor_close
ScanClose ==
    /\ cur.state = "open"
    /\ cur' = NoCursor
    /\ iter' = NoScan
    /\ last' = [NoCall EXCEPT !.op = "cursor_close"]
    /\ UNCHANGED << tables, txns, key_buf >>

NextScan ==
    \/ \E t \in TxnIds : TxnBegin(t, FALSE)
    \/ \E h \in Handles, key \in RawKeys, val \in RawVals : ScanPut(h, key, val)
    \/ \E h \in Handles, key \in RawKeys : ScanDel(h, key)
    \/ \E h \in Handles : ScanOpen(h)
    \/ ScanGet
    \/ ScanNext
    \/ ScanClose

SpecScan == InitScan /\ [][NextScan]_vars

(* ---------------- C38: the iteration under writes ---------------- *)
\* the keys returned so far are strictly ascending, and once cursor_get has
\* stopped returning entries, every key stored since the open has been returned
StableScan ==
    /\ \A i, j \in 1..Len(iter.seen) : i < j => LexLess(iter.seen[i], iter.seen[j])
    /\ (last.op = "cursor_get" /\ last.rc # KVSTORE_OK)
          => iter.kept \subseteq { iter.seen[i] : i \in 1..Len(iter.seen) }

\* C38 (as claimed): while a cursor is open on a table, puts of new keys and
\* dels in that table do not make it return a key again or skip a key stored
\* during the whole iteration; the keys it returns are strictly ascending.
Claim_C38 == cur.state = "open" => StableScan

\* C38 (amended): the same, as long as every key added or removed since the
\* open sorts after the entry at the position of the cursor.
Thm_C38 == (cur.state = "open" /\ ~iter.low) => StableScan

\* an iteration over two keys that has ended, with a key added or removed
\* ahead of the cursor on the way
Wit_C38 ==
    /\ cur.state = "open" /\ ~iter.low /\ iter.wrote
    /\ last.op = "cursor_get" /\ last.rc # KVSTORE_OK
    /\ Len(iter.seen) >= 2

(* ---------------- C39: one table per name ---------------- *)
\* the table list before the j-th backend call of the put made in this step
DbBefore(j) == IF j = 1 THEN tables ELSE last'.log[j - 1].db

\* a call on the table called name took the list from db to after: every
\* other table is where it was with the entries it had, and a table added to
\* the list is called name
OthersUntouched(db, after, name) ==
    /\ Len(after) >= Len(db)
    /\ \A n \in 1..Len(db) : db[n].name # name => after[n] = db[n]
    /\ \A n \in 1..Len(db) : after[n].name = db[n].name
    /\ \A n \in (Len(db) + 1)..Len(after) : after[n].name = name

\* the tables of the record: the primary one and one per index
RecordTables == << PkTable >> \o [i \in 1..Len(Indices) |-> SkTable(Indices[i])]

\* C39: every put and del that the backend is given for one table leaves every
\* other table with the entries it had; the primary table of a record is
\* called <record>_pk, the table of an index <record>_<index name>, and these
\* are different tables.
Thm_C39 ==
    [][ /\ RecordTables = << "message_record_pk", "message_record_by_sender",
                             "message_record_by_thread" >>
        /\ \A i, j \in 1..Len(tables') : tables'[i].name = tables'[j].name => i = j
        /\ last'.op = "put" =>
              \A j \in 1..Len(last'.log) :
                  /\ last'.log[j].table \in { RecordTables[n] : n \in 1..Len(RecordTables) }
                  /\ OthersUntouched(DbBefore(j), last'.log[j].db, last'.log[j].table) ]_vars

\* a put that deleted an entry of an index while the two other tables held
\* entries
Wit_C39 ==
    /\ last.op = "put"
    /\ \E j \in 1..Len(last.log) :
          /\ last.log[j].op = "del" /\ last.log[j].rc = KVSTORE_OK
          /\ last.log[j].table = SkTable(Indices[1])
          /\ Len(last.log[j].db) = 3
          /\ \A n \in 1..3 : last.log[j].db[n].name # last.log[j].table
                                => last.log[j].db[n].pairs # <<>>

(* ---------------- C40: cursor_open on a missing and on an emptied table ---------------- *)
\* the step is a kvstore_cursor_open through a live transaction
OpenStep == last'.op = "cursor_open" /\ TxnLive(last'.t)

\* C40: a table comes to exist only by a put; kvstore_cursor_open on a table
\* that does not exist returns no cursor and does not create the table; on a
\* table that exists and holds no entry it returns a cursor from which
\* cursor_get returns no entry and cursor_next reports the end.
Thm_C40 ==
    [][ /\ (find_table(tables, RawTable) < 0 /\ find_table(tables', RawTable) >= 0)
              => (last'.op = "kv_put" /\ last'.rc = KVSTORE_OK)
        /\ (OpenStep /\ find_table(tables, RawTable) < 0)
              => /\ last'.rc = KVSTORE_NOTFOUND
                 /\ cur' = NoCursor
                 /\ tables' = tables
        /\ (OpenStep /\ find_table(tables, RawTable) >= 0 /\ TablePairs(tables, RawTable) = <<>>)
              => /\ last'.rc = KVSTORE_OK
                 /\ cur'.state = "open"
                 /\ tables' = tables
                 /\ kvstore_cursor_get(cur', tables').rc # KVSTORE_OK
                 /\ kvstore_cursor_next(cur', tables').rc = KVSTORE_NOTFOUND ]_vars

\* a cursor opened on a table whose only entry had been deleted
Wit_C40 ==
    /\ last.op = "cursor_open" /\ last.rc = KVSTORE_OK
    /\ cur.state = "open" /\ ~cur.valid
    /\ find_table(tables, RawTable) >= 0
    /\ TablePairs(tables, RawTable) = <<>>

====
